---- MODULE Spec2Model ----
(***************************************************************************)
(* Model of the GPU cluster monitoring engine, gpu_monitor.core.GPUMonitor: *)
(* the per-server status resolver with its semaphore and its time-boxed    *)
(* cache, the cluster aggregator, the per-user usage view and the          *)
(* confirmed remote kill.  The asyncio event loop runs a coroutine without *)
(* interruption between two awaits, so every action below is the code      *)
(* between two suspension points of one coroutine.                         *)
(***************************************************************************)
EXTENDS Integers, Sequences, FiniteSets, TLC

VARIABLES now, cache, config, max_concurrent, sem, calls

vars == <<now, cache, config, max_concurrent, sem, calls>>

-----------------------------------------------------------------------------
(* Bounds of the model and the configuration the engine is built from.     *)

\* The clock (time.time()) runs from 0 to MaxTime.
MaxTime == 1

\* settings["cache_ttl"] of the configuration, in ticks of the clock.
cache_ttl == 1

\* The values of settings["max_concurrent"] the engine is built with.
ConcurrencySettings == {1, 2}

\* The concurrent callers of the one engine.
Callers == {"c1", "c2", "c3"}

None == "None"

\* settings["ssh_timeout"] of the configuration file, in seconds.
ssh_timeout == 2

\* The defaults of the three settings.
DefaultCacheTtl == 30

DefaultSshTimeout == 5

DefaultMaxConcurrent == 4

ServerConfig(id, hostname) == [id |-> id, hostname |-> hostname]

\* The servers of the configuration file (ids are unique).
FileServers == << ServerConfig("gpu01", "host1"), ServerConfig("gpu02", "host2") >>

\* A settings map: a function from some of the setting names to numbers.
SettingKeys == {"cache_ttl", "ssh_timeout", "max_concurrent"}

FileSettings(n) ==
    [k \in SettingKeys |->
        CASE k = "cache_ttl" -> cache_ttl
          [] k = "ssh_timeout" -> ssh_timeout
          [] OTHER -> n]

\* The settings field of ClusterConfig when the file has no "settings".
DefaultSettings ==
    [k \in SettingKeys |->
        CASE k = "cache_ttl" -> DefaultCacheTtl
          [] k = "ssh_timeout" -> DefaultSshTimeout
          [] OTHER -> DefaultMaxConcurrent]

\* settings restricted to some of its keys: a file that leaves keys out.
Without(settings, keys) == [k \in DOMAIN settings \ keys |-> settings[k]]

\* Variant: the defaults replace a settings map that misses any key.
SettingsGet_whole(settings, key, default) ==
    IF DOMAIN settings = SettingKeys THEN settings[key] ELSE default

\* self.config.settings.get(key, default)
SettingsGet(settings, key, default) ==
    IF key \in DOMAIN settings THEN settings[key] ELSE default

ClusterConfig(servers, settings) == [servers |-> servers, settings |-> settings]

\* What is at config_path: no file, or JSON data with its servers and,
\* when has_settings, its settings map.
NoFile == [found |-> FALSE, servers |-> <<>>, has_settings |-> FALSE, settings |-> <<>>]

JsonFile(servers, settings) ==
    [found |-> TRUE, servers |-> servers, has_settings |-> TRUE, settings |-> settings]

JsonFileNoSettings(servers) ==
    [found |-> TRUE, servers |-> servers, has_settings |-> FALSE, settings |-> <<>>]

_load_config(file) ==
    IF ~file.found
    THEN ClusterConfig(<< ServerConfig("gpu01", "gpu01.cluster.local") >>, DefaultSettings)
    ELSE ClusterConfig(file.servers,
                       IF file.has_settings THEN file.settings ELSE DefaultSettings)

\* The configuration files of the two main specifications.
ConfigFiles == { JsonFile(FileServers, FileSettings(n)) : n \in ConcurrencySettings }

\* A configuration file that gives the id gpu01 to both of its servers.
DuplicateServers == << ServerConfig("gpu01", "host1"), ServerConfig("gpu01", "host2") >>

DuplicateFiles == { JsonFile(DuplicateServers, FileSettings(n)) : n \in ConcurrencySettings }

\* Configuration files whose settings map leaves out one key, or every key.
PartialFiles ==
    { JsonFile(FileServers, Without(FileSettings(1), {k})) : k \in SettingKeys }
    \cup { JsonFile(FileServers, Without(FileSettings(1), SettingKeys)) }

\* config.servers, in configuration order.
config_servers == config.servers

\* Variant: the ttl read once, by __init__ without a configuration file.
ttl_setting_at_construction == DefaultCacheTtl

\* ttl = self.config.settings.get("cache_ttl", 30)
ttl_setting == SettingsGet(config.settings, "cache_ttl", DefaultCacheTtl)

\* timeout = self.config.settings.get("ssh_timeout", 5)
timeout_setting == SettingsGet(config.settings, "ssh_timeout", DefaultSshTimeout)

Usernames == {"alice", "bob"}

\* A server_ids argument: absent (None) or a list of ids.
NoFilter == [absent |-> TRUE, ids |-> <<>>]

IdList(ids) == [absent |-> FALSE, ids |-> ids]

Filters ==
    { NoFilter, IdList(<<>>), IdList(<<"gpu01">>), IdList(<<"gpu02", "gpu09">>),
      IdList(<<"gpu02", "gpu01">>) }

-----------------------------------------------------------------------------
(* Sequence helpers.                                                       *)

Range(s) == { s[i] : i \in DOMAIN s }

RECURSIVE SumSeq(_)
SumSeq(s) == IF s = <<>> THEN 0 ELSE Head(s) + SumSeq(Tail(s))

MapSeq(s, F(_)) == [i \in DOMAIN s |-> F(s[i])]

\* A Python dict kept in insertion order: a sequence of <<key, value>> pairs.
DictKeys(d) == [i \in DOMAIN d |-> d[i][1]]

DictHas(d, k) == \E i \in DOMAIN d : d[i][1] = k

DictGet(d, k) == d[CHOOSE i \in DOMAIN d : d[i][1] = k][2]

DictSet(d, k, v) ==
    IF DictHas(d, k)
    THEN [i \in DOMAIN d |-> IF d[i][1] = k THEN <<k, v>> ELSE d[i]]
    ELSE Append(d, <<k, v>>)

-----------------------------------------------------------------------------
(* What a remote host can answer.  A line of output is described by the    *)
(* tokens the parser looks for and by the groups its two regular           *)
(* expressions capture (<<>> when the expression does not match).          *)

GpuLine(idx, util, used, total) ==
    [hasGPU |-> TRUE, hasPct |-> TRUE, hasPID |-> FALSE, hasMemory |-> FALSE,
     gpu |-> <<idx, util, used, total>>, proc |-> <<>>]

\* "PID <pid> <user> GPU:<i> <mem>MB <name>"; the text "Memory" is in the
\* line only when the process name holds it.
ProcLine(pid, user, idx, mem, name, memoryInName) ==
    [hasGPU |-> TRUE, hasPct |-> FALSE, hasPID |-> TRUE, hasMemory |-> memoryInName,
     gpu |-> <<>>, proc |-> <<pid, user, idx, mem, name>>]

OtherLine ==
    [hasGPU |-> FALSE, hasPct |-> FALSE, hasPID |-> FALSE, hasMemory |-> FALSE,
     gpu |-> <<>>, proc |-> <<>>]

BusyOutput(base) ==
    << GpuLine(0, 85, 15, 16), GpuLine(1, 45, 8, 16), OtherLine,
       ProcLine(base + 1, "alice", 0, 2, "Memory_train", TRUE),
       ProcLine(base + 2, "bob", 1, 1, "Memory_jupyter", TRUE),
       ProcLine(base + 3, "alice", 1, 4, "python", FALSE) >>

QuietOutput == << GpuLine(0, 0, 0, 16) >>

\* A line that holds "GPU" and "%" without the used/total pair, and a line
\* that holds "PID" and "Memory" without the process fields: the tests of
\* the parser pass and its regular expressions do not match.
GpuHeaderLine ==
    [hasGPU |-> TRUE, hasPct |-> TRUE, hasPID |-> FALSE, hasMemory |-> FALSE,
     gpu |-> <<>>, proc |-> <<>>]

ProcHeaderLine ==
    [hasGPU |-> FALSE, hasPct |-> FALSE, hasPID |-> TRUE, hasMemory |-> TRUE,
     gpu |-> <<>>, proc |-> <<>>]

\* Text of a host whose tools misreport: more memory used than the GPU has,
\* and a process line with PID 0 (both match the regular expressions,
\* which take any digits).
OddOutput ==
    << GpuHeaderLine, GpuLine(0, 10, 17, 16), ProcHeaderLine,
       ProcLine(0, "bob", 0, 1, "Memory_hog", TRUE) >>

PidBase(hostname) == IF hostname = "host1" THEN 10 ELSE 20

\* What the ssh subprocess of one command does: it exits with a return
\* code, its stdout and its stderr, or it is still running when the timeout
\* expires, or it cannot be created.  decodable tells whether the stream
\* the Runner decodes (stdout after exit 0, stderr otherwise) is UTF-8.
\* elapsed is the time the Runner measures, in milliseconds.
ProcessExit(returncode, stdout, stderr, decodable, elapsed) ==
    [kind |-> "exit", returncode |-> returncode, stdout |-> stdout,
     stderr |-> stderr, decodable |-> decodable, exc |-> "", elapsed |-> elapsed]

ProcessTimeout(elapsed) ==
    [kind |-> "timeout", returncode |-> 0, stdout |-> <<>>,
     stderr |-> "", decodable |-> TRUE, exc |-> "", elapsed |-> elapsed]

ProcessError(exc, elapsed) ==
    [kind |-> "error", returncode |-> 0, stdout |-> <<>>,
     stderr |-> "", decodable |-> TRUE, exc |-> exc, elapsed |-> elapsed]

NoProcess ==
    [kind |-> "none", returncode |-> 0, stdout |-> <<>>,
     stderr |-> "", decodable |-> TRUE, exc |-> "", elapsed |-> 0]

\* str(e) of the UnicodeDecodeError of bytes.decode().
DecodeErrorText == "'utf-8' codec can't decode byte 0xff"

\* The tuple (success, output, response_time) the Runner returns; output
\* is kept as the lines of a successful answer or the text of a failed one.
RunnerResult(success, output, text, elapsed) ==
    [success |-> success, output |-> output, text |-> text, elapsed |-> elapsed]

_run_ssh_command(p, seconds) ==
    CASE p.kind = "timeout" ->
            RunnerResult(FALSE, <<>>, "SSH timeout after " \o ToString(seconds) \o "s", p.elapsed)
      [] p.kind = "error" -> RunnerResult(FALSE, <<>>, p.exc, p.elapsed)
      [] OTHER ->
            IF ~p.decodable THEN RunnerResult(FALSE, <<>>, DecodeErrorText, p.elapsed)
            ELSE IF p.returncode = 0 THEN RunnerResult(TRUE, p.stdout, "", p.elapsed)
            ELSE RunnerResult(FALSE, <<>>, p.stderr, p.elapsed)

\* What the status command's subprocess can do on a host: host2 can send
\* bytes that are not UTF-8 or misreported text, every other host can be
\* idle or fail to answer in time.
StatusProcesses(hostname) ==
    { ProcessExit(0, BusyOutput(PidBase(hostname)), "", TRUE, 120),
      ProcessExit(0, IF hostname = "host2" THEN OddOutput ELSE QuietOutput, "", TRUE, 80),
      ProcessExit(255, <<>>, "Connection refused", TRUE, 40),
      IF hostname = "host2"
      THEN ProcessExit(0, QuietOutput, "", FALSE, 90)
      ELSE ProcessTimeout(1000 * timeout_setting) }

\* What a kill command's subprocess can do.
KillProcesses ==
    { ProcessExit(0, <<>>, "", TRUE, 30),
      ProcessExit(1, <<>>, "Operation not permitted", TRUE, 35),
      ProcessError("No such file or directory: 'ssh'", 1) }

\* The answers of the Runner to the status command on a host, and to a
\* kill command.
StatusOutcomes(hostname) ==
    { _run_ssh_command(p, timeout_setting) : p \in StatusProcesses(hostname) }

KillOutcomes == { _run_ssh_command(p, timeout_setting) : p \in KillProcesses }

ErrorTexts == {"boom"}

-----------------------------------------------------------------------------
(* The telemetry parser.                                                   *)

\* Variant: the free memory is the total.
GPUInfo_free_is_total(g) ==
    [index |-> g[1], utilization_percent |-> g[2], memory_used_mb |-> g[3],
     memory_total_mb |-> g[4], memory_free_mb |-> g[4]]

GPUInfo(g) ==
    [index |-> g[1], utilization_percent |-> g[2], memory_used_mb |-> g[3],
     memory_total_mb |-> g[4], memory_free_mb |-> g[4] - g[3]]

ProcessInfo(p) ==
    [pid |-> p[1], username |-> p[2], gpu_index |-> p[3],
     memory_used_mb |-> p[4], process_name |-> p[5]]

IsGpuLine(l) == l.hasGPU /\ l.hasPct /\ l.gpu # <<>>

IsProcLine(l) == l.hasPID /\ l.hasMemory /\ l.proc # <<>>

GpuOf(l) == GPUInfo(l.gpu)

ProcOf(l) == ProcessInfo(l.proc)

_parse_nvidia_smi_output(output) ==
    [gpus |-> MapSeq(SelectSeq(output, IsGpuLine), GpuOf),
     processes |-> MapSeq(SelectSeq(output, IsProcLine), ProcOf)]

-----------------------------------------------------------------------------
(* The cache: a dict from key to (data, timestamp).                        *)

\* Variant: one key for every server.
CacheKey_shared(server_id) == "server_status_"

\* cache_key = f"server_status_{server.id}"
CacheKey(server_id) == "server_status_" \o server_id

\* Variant: an entry of age ttl still counts as valid.
_is_cache_valid_le(c, key, ttl, t) ==
    key \in DOMAIN c /\ t - c[key].timestamp <= ttl

_is_cache_valid(c, key, ttl, t) ==
    /\ key \in DOMAIN c
    /\ t - c[key].timestamp < ttl

_get_cached(c, key) == c[key].data

\* Variant: only the status of a host that answered is stored.
_set_cache_online_only(c, key, data, t) ==
    IF data.online
    THEN [k \in DOMAIN c \cup {key} |->
            IF k = key THEN [data |-> data, timestamp |-> t] ELSE c[k]]
    ELSE c

\* Variant: the entry is stored under the host name of the status.
_set_cache_by_hostname(c, key, data, t) ==
    [k \in DOMAIN c \cup {"server_status_" \o data.hostname} |->
        IF k = "server_status_" \o data.hostname
        THEN [data |-> data, timestamp |-> t] ELSE c[k]]

_set_cache(c, key, data, t) ==
    [k \in DOMAIN c \cup {key} |->
        IF k = key THEN [data |-> data, timestamp |-> t] ELSE c[k]]

EmptyCache == [k \in {} |-> None]

CacheDelete(c, key) == [k \in DOMAIN c \ {key} |-> c[k]]

-----------------------------------------------------------------------------
(* Records of models.py.  preKill is not a field of the program: it marks  *)
(* a status computed from a status command that was issued before a later  *)
(* successful kill on the same server.                                     *)

\* response_time_ms is <<>> for None and <<ms>> for a value.
ServerStatus(server, online, error_message, gpus, processes, t, response_time_ms, preKill) ==
    [server_id |-> server.id, hostname |-> server.hostname, online |-> online,
     error_message |-> error_message, gpus |-> gpus, processes |-> processes,
     last_updated |-> t, response_time_ms |-> response_time_ms, preKill |-> preKill]

NoStatus ==
    [server_id |-> "", hostname |-> "", online |-> FALSE, error_message |-> None,
     gpus |-> <<>>, processes |-> <<>>, last_updated |-> 0,
     response_time_ms |-> <<>>, preKill |-> FALSE]

\* What one _get_server_status coroutine gave to gather: a status or an
\* exception.
Returned(status) == [exc |-> FALSE, text |-> "", status |-> status]

Raised(text) == [exc |-> TRUE, text |-> text, status |-> NoStatus]

NoResult == [exc |-> FALSE, text |-> "", status |-> NoStatus]

\* Variant: the host counts as online whenever the Runner returned.
StatusFromOutcome_online(server, o, t, preKill) ==
    LET parsed == _parse_nvidia_smi_output(o.output)
    IN  ServerStatus(server, TRUE, None, parsed.gpus, parsed.processes, t,
                     <<o.elapsed>>, preKill)

\* _get_server_status, from the Runner's answer to the status it builds.
StatusFromOutcome(server, o, t, preKill) ==
    IF o.success
    THEN LET parsed == _parse_nvidia_smi_output(o.output)
         IN  ServerStatus(server, TRUE, None, parsed.gpus, parsed.processes, t,
                          <<o.elapsed>>, preKill)
    ELSE ServerStatus(server, FALSE, o.text, <<>>, <<>>, t, <<o.elapsed>>, preKill)

-----------------------------------------------------------------------------
(* get_cluster_status.                                                     *)

\* Python's truth value of the server_ids argument.
FilterGiven(filter) == ~filter.absent /\ filter.ids # <<>>

IsSelected(filter, server) == server.id \in Range(filter.ids)

\* Variant: the selected servers are listed in the order of the filter.
RECURSIVE InFilterOrder(_)
InFilterOrder(ids) ==
    IF ids = <<>> THEN <<>>
    ELSE SelectSeq(config_servers, LAMBDA s : s.id = Head(ids)) \o InFilterOrder(Tail(ids))

servers_to_check_in_filter_order(filter) ==
    IF FilterGiven(filter) THEN InFilterOrder(filter.ids) ELSE config_servers

servers_to_check(filter) ==
    IF FilterGiven(filter)
    THEN SelectSeq(config_servers, LAMBDA s : IsSelected(filter, s))
    ELSE config_servers

\* Variant: the substituted status is marked online.
error_status_online(server, text, t) ==
    ServerStatus(server, TRUE, text, <<>>, <<>>, t, <<>>, FALSE)

\* Variant: the substituted status carries no error text.
error_status_no_message(server, text, t) ==
    ServerStatus(server, FALSE, None, <<>>, <<>>, t, <<>>, FALSE)

\* The status substituted for a resolution that raised.
error_status(server, text, t) ==
    ServerStatus(server, FALSE, text, <<>>, <<>>, t, <<>>, FALSE)

valid_statuses(servers, results, t) ==
    [i \in DOMAIN results |->
        IF results[i].exc
        THEN error_status(servers[i], results[i].text, t)
        ELSE results[i].status]

total_gpus(statuses) ==
    SumSeq(MapSeq(SelectSeq(statuses, LAMBDA s : s.online), LAMBDA s : Len(s.gpus)))

\* Variant: every entry is counted.
online_servers_all(statuses) == Len(statuses)

online_servers(statuses) == Len(SelectSeq(statuses, LAMBDA s : s.online))

ClusterStatus(statuses, t) ==
    [servers |-> statuses, total_gpus |-> total_gpus(statuses),
     online_servers |-> online_servers(statuses),
     total_servers |-> Len(statuses), last_updated |-> t]

NoCluster ==
    [servers |-> <<>>, total_gpus |-> 0, online_servers |-> 0,
     total_servers |-> 0, last_updated |-> 0]

-----------------------------------------------------------------------------
(* get_user_usage.                                                         *)

\* Variant: the username is not compared.
server_processes_any(status, username) == status.processes

server_processes(status, username) ==
    SelectSeq(status.processes, LAMBDA p : p.username = username)

\* The loop over cluster_status.servers: acc is <<servers_used,
\* processes_by_server, user_processes>>.
RECURSIVE UsageLoop(_, _, _)
UsageLoop(statuses, username, acc) ==
    IF statuses = <<>> THEN acc
    ELSE LET st == Head(statuses)
             sp == server_processes(st, username)
         IN  IF ~st.online \/ sp = <<>>
             THEN UsageLoop(Tail(statuses), username, acc)
             ELSE UsageLoop(Tail(statuses), username,
                            << Append(acc[1], st.server_id),
                               DictSet(acc[2], st.server_id, sp),
                               acc[3] \o sp >>)

\* Variant: the totals also count the other users' processes of the first
\* server.
UserUsageSummary_totals_of_all(username, cluster, t) ==
    LET acc == UsageLoop(cluster.servers, username, << <<>>, <<>>, <<>> >>)
        first == IF cluster.servers = <<>> THEN <<>> ELSE Head(cluster.servers).processes
        counted == acc[3] \o SelectSeq(first, LAMBDA p : p.username # username)
    IN  [username |-> username,
         total_processes |-> Len(counted),
         total_memory_used_mb |-> SumSeq(MapSeq(counted, LAMBDA p : p.memory_used_mb)),
         servers_used |-> acc[1],
         processes_by_server |-> acc[2],
         last_updated |-> t]

UserUsageSummary(username, cluster, t) ==
    LET acc == UsageLoop(cluster.servers, username, << <<>>, <<>>, <<>> >>)
    IN  [username |-> username,
         total_processes |-> Len(acc[3]),
         total_memory_used_mb |-> SumSeq(MapSeq(acc[3], LAMBDA p : p.memory_used_mb)),
         servers_used |-> acc[1],
         processes_by_server |-> acc[2],
         last_updated |-> t]

NoUsage ==
    [username |-> "", total_processes |-> 0, total_memory_used_mb |-> 0,
     servers_used |-> <<>>, processes_by_server |-> <<>>, last_updated |-> 0]

-----------------------------------------------------------------------------
(* kill_user_tasks: pure parts.                                            *)

\* Variant: the confirm gate is missing.
kill_refused_never(confirm) == FALSE

\* "if not confirm: return {'error': ...}"
kill_refused(confirm) == ~confirm

\* Variant: only the first configured server is looked at.
HasServer_first_only(server_id) ==
    config_servers # <<>> /\ config_servers[1].id = server_id

\* next((s for s in self.config.servers if s.id == server_id), None)
HasServer(server_id) == \E i \in DOMAIN config_servers : config_servers[i].id = server_id

FindServer(server_id) ==
    LET first == CHOOSE i \in DOMAIN config_servers :
                    /\ config_servers[i].id = server_id
                    /\ \A j \in 1 .. (i - 1) : config_servers[j].id # server_id
    IN  config_servers[first]

\* Variant: a pid that is not the user's is added.
kill_pids_all(processes) == MapSeq(processes, LAMBDA p : p.pid) \o <<0>>

\* pids = [str(p.pid) for p in processes]
kill_pids(processes) == MapSeq(processes, LAMBDA p : p.pid)

\* The ssh invocation "kill -9 <pids>" on the server's host.
KillCommand(server, processes) ==
    [hostname |-> server.hostname, pids |-> kill_pids(processes)]

Killed(n) == [kind |-> "Killed", count |-> n, text |-> ""]

FailedToKill(text) == [kind |-> "Failed to kill processes", count |-> 0, text |-> text]

ConfigNotFound == [kind |-> "Server config not found", count |-> 0, text |-> ""]

ErrorResult ==
    << <<"error", [kind |-> "Must set confirm=True to kill user tasks",
                   count |-> 0, text |-> ""]>> >>

MessageResult(username) ==
    << <<"message", [kind |-> "No processes found for user", count |-> 0,
                     text |-> username]>> >>

\* Variant: the entry is deleted whatever the Runner answered.
kill_cache_always(c, server_id, success) ==
    IF CacheKey(server_id) \in DOMAIN c THEN CacheDelete(c, CacheKey(server_id)) ELSE c

\* Variant: a successful kill empties the cache.
kill_cache_clear(c, server_id, success) == IF success THEN EmptyCache ELSE c

\* The cache after the Runner answered the kill command for server_id.
kill_cache(c, server_id, success) ==
    IF success /\ CacheKey(server_id) \in DOMAIN c
    THEN CacheDelete(c, CacheKey(server_id))
    ELSE c

\* Variant: only a successful kill is recorded.
record_result_killed(results, server_id, value) ==
    IF value.kind = "Killed" THEN DictSet(results, server_id, value) ELSE results

\* results[server_id] = value
record_result(results, server_id, value) == DictSet(results, server_id, value)

\* Variant: the usage is never taken as empty.
no_processes_never(usage) == FALSE

\* "if not usage.processes_by_server"
no_processes(usage) == usage.processes_by_server = <<>>

kill_result(success, text, processes) ==
    IF success THEN Killed(Len(kill_pids(processes))) ELSE FailedToKill(text)

-----------------------------------------------------------------------------
(* State.                                                                  *)
(*  now     the clock                                                      *)
(*  cache   self._cache                                                    *)
(*  config  self.config                                                    *)
(*  max_concurrent  the size self._semaphore was built with                *)
(*  sem     the free slots of self._semaphore                              *)
(*  calls   per caller, the public operation it runs and its locals        *)

\* One _get_server_status coroutine of a gather.  st is "wait" (not yet in
\* the semaphore), "ssh" (status command in flight) or "done".  History
\* fields: sawValid tells that the cache held a valid entry for the server
\* when the coroutine was created and that this entry has been neither
\* deleted nor replaced since,
\* killedSince that a kill has succeeded on its server since the coroutine
\* was created, issued that it ran a status command, preKill that a kill
\* succeeded on its server while its status command was in flight, ran what
\* the subprocess of its status command did.
NewTask(server, t) ==
    [st |-> "wait", res |-> NoResult, ran |-> NoProcess,
     sawValid |-> _is_cache_valid(cache, CacheKey(server.id), ttl_setting, t),
     killedSince |-> FALSE, issued |-> FALSE, preKill |-> FALSE]

\* The caller is not a run of the command line's kill command.
NoCli ==
    [phase |-> "none", username |-> "", server_ids |-> NoFilter,
     frame |-> [confirm_option |-> FALSE, confirm |-> "", dry_run |-> FALSE],
     output |-> <<>>]

IdleCall ==
    [op |-> "none", username |-> "", filter |-> NoFilter, confirm |-> FALSE,
     pc |-> "idle", servers |-> <<>>, tasks |-> <<>>,
     cluster |-> NoCluster, usage |-> NoUsage,
     ki |-> 0, results |-> <<>>, commands |-> <<>>, cli |-> NoCli]

Ops == {"get_cluster_status", "get_user_usage", "kill_user_tasks"}

ServerIds == { config_servers[i].id : i \in DOMAIN config_servers }

\* GPUMonitor.__init__ on one of the given configuration files.
InitFrom(files) ==
    /\ now = 0
    /\ cache = EmptyCache
    /\ \E file \in files : config = _load_config(file)
    /\ max_concurrent = SettingsGet(config.settings, "max_concurrent", DefaultMaxConcurrent)
    /\ sem = max_concurrent
    /\ calls = [c \in Callers |-> IdleCall]

Init == InitFrom(ConfigFiles)

\* Remote commands in flight: status commands and kill commands.
StatusInFlight ==
    Cardinality({ <<c, i>> \in Callers \X (1 .. Len(config_servers)) :
                    i \in DOMAIN calls[c].tasks /\ calls[c].tasks[i].st = "ssh" })

KillInFlight == Cardinality({ c \in Callers : calls[c].pc = "killssh" })

InFlight == StatusInFlight + KillInFlight

-----------------------------------------------------------------------------
(* Actions.                                                                *)

Tick ==
    /\ now < MaxTime
    /\ now' = now + 1
    /\ UNCHANGED <<cache, config, max_concurrent, sem, calls>>

\* Variant: the status command is run whatever the cache holds.
TaskEnter_always_runs(task, server) ==
    [task EXCEPT !.st = "ssh", !.sawValid = FALSE, !.issued = TRUE]

\* _get_server_status once it is in the semaphore: a valid cache entry is
\* returned (a cached ServerStatus is always true for "if cached_data"),
\* otherwise the status command is started.
TaskEnter(task, server) ==
    LET key == CacheKey(server.id)
    IN  IF _is_cache_valid(cache, key, ttl_setting, now)
        THEN [task EXCEPT !.st = "done", !.sawValid = FALSE,
                          !.res = Returned(_get_cached(cache, key))]
        ELSE [task EXCEPT !.st = "ssh", !.sawValid = FALSE, !.issued = TRUE]

\* Variant: one lock over the whole cache; a coroutine goes past the lookup
\* only while no status command of the call is running.
RECURSIVE StartTasks_one_lock(_, _, _, _)
StartTasks_one_lock(servers, i, tasks, free) ==
    IF i > Len(servers) THEN [tasks |-> tasks, sem |-> free]
    ELSE LET created == NewTask(servers[i], now)
             entered == TaskEnter(created, servers[i])
             locked == \E k \in DOMAIN tasks : tasks[k].st = "ssh"
         IN  IF free = 0 \/ locked
             THEN StartTasks_one_lock(servers, i + 1, Append(tasks, created), free)
             ELSE StartTasks_one_lock(servers, i + 1, Append(tasks, entered),
                                      IF entered.st = "ssh" THEN free - 1 ELSE free)

\* Variant: the cache is looked up before the semaphore; a coroutine that
\* finds a valid entry returns it without a slot.
RECURSIVE StartTasks_lookup_first(_, _, _, _)
StartTasks_lookup_first(servers, i, tasks, free) ==
    IF i > Len(servers) THEN [tasks |-> tasks, sem |-> free]
    ELSE LET created == NewTask(servers[i], now)
             entered == TaskEnter(created, servers[i])
         IN  IF free = 0 /\ entered.st = "ssh"
             THEN StartTasks_lookup_first(servers, i + 1, Append(tasks, created), free)
             ELSE StartTasks_lookup_first(servers, i + 1, Append(tasks, entered),
                                          IF entered.st = "ssh" THEN free - 1 ELSE free)

\* gather starts the coroutines in the order of servers_to_check; each runs
\* up to its first suspension: the semaphore when no slot is free, else
\* the status command (a cache hit ends the coroutine with no suspension).
\* free is the number of free slots left by the coroutines before i.
RECURSIVE StartTasks(_, _, _, _)
StartTasks(servers, i, tasks, free) ==
    IF i > Len(servers) THEN [tasks |-> tasks, sem |-> free]
    ELSE LET created == NewTask(servers[i], now)
             entered == TaskEnter(created, servers[i])
         IN  IF free = 0
             THEN StartTasks(servers, i + 1, Append(tasks, created), free)
             ELSE StartTasks(servers, i + 1, Append(tasks, entered),
                             IF entered.st = "ssh" THEN free - 1 ELSE free)

\* A caller invokes a public operation.  kill_user_tasks without confirm
\* returns at once; every other call reaches get_cluster_status, which
\* creates one _get_server_status coroutine per selected server and awaits
\* them.
Call(c, op, username, filter, confirm) ==
    /\ calls[c].pc = "idle"
    /\ (op = "get_cluster_status" => username = "")
    /\ (op # "kill_user_tasks" => ~confirm)
    /\ LET base == [IdleCall EXCEPT !.op = op, !.username = username,
                                    !.filter = filter, !.confirm = confirm]
           sel == servers_to_check(filter)
           started == StartTasks(sel, 1, <<>>, sem)
       IN  IF op = "kill_user_tasks" /\ kill_refused(confirm)
           THEN /\ calls' = [calls EXCEPT ![c] =
                                [base EXCEPT !.pc = "done", !.results = ErrorResult]]
                /\ sem' = sem
           ELSE /\ calls' = [calls EXCEPT ![c] =
                                [base EXCEPT !.pc = "gather", !.servers = sel,
                                             !.tasks = started.tasks]]
                /\ sem' = started.sem
    /\ UNCHANGED <<now, cache, config, max_concurrent>>

\* A coroutine that waited for a slot gets one.
Resolve(c, i) ==
    /\ calls[c].pc = "gather"
    /\ i \in DOMAIN calls[c].tasks
    /\ calls[c].tasks[i].st = "wait"
    /\ sem > 0
    /\ LET entered == TaskEnter(calls[c].tasks[i], calls[c].servers[i])
       IN  /\ calls' = [calls EXCEPT ![c].tasks[i] = entered]
           /\ sem' = IF entered.st = "ssh" THEN sem - 1 ELSE sem
    /\ UNCHANGED <<now, cache, config, max_concurrent>>

\* The history fields of the other coroutines after a status of server_id
\* was stored in the cache.
MarkStore(task, server, server_id) ==
    IF server.id = server_id /\ task.st = "wait"
    THEN [task EXCEPT !.sawValid = FALSE]
    ELSE task

\* Variant: the slot is given back only when the status command succeeded.
SshDone_keeps_slot_on_failure(c, i, p) ==
    /\ i \in DOMAIN calls[c].tasks
    /\ calls[c].tasks[i].st = "ssh"
    /\ LET server == calls[c].servers[i]
           o == _run_ssh_command(p, timeout_setting)
           status == StatusFromOutcome(server, o, now, calls[c].tasks[i].preKill)
       IN  /\ cache' = _set_cache(cache, CacheKey(server.id), status, now)
           /\ calls' = [d \in Callers |->
                [calls[d] EXCEPT !.tasks =
                    [j \in DOMAIN calls[d].tasks |->
                        IF d = c /\ j = i
                        THEN [calls[c].tasks[i] EXCEPT !.st = "done", !.ran = p,
                                                       !.res = Returned(status)]
                        ELSE MarkStore(calls[d].tasks[j], calls[d].servers[j], server.id)]]]
           /\ sem' = IF o.success THEN sem + 1 ELSE sem
    /\ UNCHANGED <<now, config, max_concurrent>>

\* The subprocess of the status command ends as p: the Runner answers, the
\* status is built, cached and returned, and the slot released.
SshDone(c, i, p) ==
    /\ i \in DOMAIN calls[c].tasks
    /\ calls[c].tasks[i].st = "ssh"
    /\ LET server == calls[c].servers[i]
           o == _run_ssh_command(p, timeout_setting)
           status == StatusFromOutcome(server, o, now, calls[c].tasks[i].preKill)
       IN  /\ cache' = _set_cache(cache, CacheKey(server.id), status, now)
           /\ calls' = [d \in Callers |->
                [calls[d] EXCEPT !.tasks =
                    [j \in DOMAIN calls[d].tasks |->
                        IF d = c /\ j = i
                        THEN [calls[c].tasks[i] EXCEPT !.st = "done", !.ran = p,
                                                       !.res = Returned(status)]
                        ELSE MarkStore(calls[d].tasks[j], calls[d].servers[j], server.id)]]]
    /\ sem' = sem + 1
    /\ UNCHANGED <<now, config, max_concurrent>>

\* Variant: the slot is not given back when the coroutine raises.
SshRaise_keeps_slot(c, i, text) ==
    /\ i \in DOMAIN calls[c].tasks
    /\ calls[c].tasks[i].st = "ssh"
    /\ calls' = [calls EXCEPT ![c].tasks[i].st = "done",
                              ![c].tasks[i].res = Raised(text)]
    /\ UNCHANGED <<now, cache, config, max_concurrent, sem>>

\* _get_server_status raises unexpectedly: "async with" releases the slot
\* and gather(return_exceptions=True) keeps the exception as the result.
SshRaise(c, i, text) ==
    /\ i \in DOMAIN calls[c].tasks
    /\ calls[c].tasks[i].st = "ssh"
    /\ calls' = [calls EXCEPT ![c].tasks[i].st = "done",
                              ![c].tasks[i].res = Raised(text)]
    /\ sem' = sem + 1
    /\ UNCHANGED <<now, cache, config, max_concurrent>>

\* Variant: the loop ends at the first result that is not "Killed".
RECURSIVE KillLoop_until_failure(_, _)
KillLoop_until_failure(rec, k) ==
    LET pbs == rec.usage.processes_by_server
        failed == \E e \in DOMAIN rec.results : rec.results[e][2].kind # "Killed"
    IN  IF k > Len(pbs) \/ failed
        THEN [rec EXCEPT !.pc = "done", !.ki = 0]
        ELSE IF ~HasServer(pbs[k][1])
        THEN KillLoop_until_failure(
                 [rec EXCEPT !.results = record_result(@, pbs[k][1], ConfigNotFound)], k + 1)
        ELSE LET cmd == KillCommand(FindServer(pbs[k][1]), pbs[k][2])
             IN  [rec EXCEPT !.pc = "killssh", !.ki = k, !.commands = Append(@, cmd)]

\* The "for server_id, processes in usage.processes_by_server.items()" loop
\* of kill_user_tasks from its k-th entry up to the next await: entries
\* without a server config get their result, the first other one has its
\* kill command started; past the last entry the results are returned.
RECURSIVE KillLoop(_, _)
KillLoop(rec, k) ==
    LET pbs == rec.usage.processes_by_server
    IN  IF k > Len(pbs)
        THEN [rec EXCEPT !.pc = "done", !.ki = 0]
        ELSE IF ~HasServer(pbs[k][1])
        THEN KillLoop([rec EXCEPT !.results = record_result(@, pbs[k][1], ConfigNotFound)],
                      k + 1)
        ELSE LET cmd == KillCommand(FindServer(pbs[k][1]), pbs[k][2])
             IN  [rec EXCEPT !.pc = "killssh", !.ki = k, !.commands = Append(@, cmd)]

\* A coroutine whose result gather has handed over: its history ends.
Collected(task) ==
    [task EXCEPT !.killedSince = FALSE, !.issued = FALSE, !.ran = NoProcess]

\* gather has every result: get_cluster_status builds the ClusterStatus,
\* get_user_usage the summary, and kill_user_tasks goes on to its first
\* kill command (or returns the "message" result).  The values built on
\* the way are bound one by one, each computed once.
Aggregate(c) ==
    /\ calls[c].pc = "gather"
    /\ \A i \in DOMAIN calls[c].tasks : calls[c].tasks[i].st = "done"
    /\ LET rec == calls[c]
           results == [i \in DOMAIN rec.tasks |-> rec.tasks[i].res]
       IN  \E cluster \in {ClusterStatus(valid_statuses(rec.servers, results, now), now)} :
           \E usage \in {UserUsageSummary(rec.username, cluster, now)} :
           \E withCluster \in {[rec EXCEPT !.cluster = cluster,
                                           !.tasks = MapSeq(rec.tasks, Collected)]} :
           \E withUsage \in {[withCluster EXCEPT !.usage = usage]} :
              calls' = [calls EXCEPT ![c] =
                 CASE rec.op = "get_cluster_status" -> [withCluster EXCEPT !.pc = "done"]
                   [] rec.op = "get_user_usage" -> [withUsage EXCEPT !.pc = "done"]
                   [] OTHER ->
                        IF no_processes(usage)
                        THEN [withUsage EXCEPT !.pc = "done",
                                               !.results = MessageResult(rec.username)]
                        ELSE KillLoop(withUsage, 1)]
    /\ UNCHANGED <<now, cache, config, max_concurrent, sem>>

\* The history fields of the other coroutines after a kill succeeded on
\* server_id.
MarkKill(task, server, server_id) ==
    IF server.id # server_id \/ task.st = "done" THEN task
    ELSE [task EXCEPT !.killedSince = TRUE, !.sawValid = FALSE,
                      !.preKill = (task.st = "ssh")]

\* The subprocess of the kill command ends as p: the Runner answers, the
\* result is recorded, on success the server's cache entry is deleted, and
\* the loop goes on.
KillDone(c, p) ==
    /\ calls[c].pc = "killssh"
    /\ LET rec == calls[c]
           o == _run_ssh_command(p, timeout_setting)
           entry == rec.usage.processes_by_server[rec.ki]
           server_id == entry[1]
           recorded == [rec EXCEPT !.results =
                           record_result(@, server_id,
                                         kill_result(o.success, o.text, entry[2]))]
       IN  /\ cache' = kill_cache(cache, server_id, o.success)
           /\ calls' = [d \in Callers |->
                IF d = c THEN KillLoop(recorded, rec.ki + 1)
                ELSE IF ~o.success THEN calls[d]
                ELSE [calls[d] EXCEPT !.tasks =
                        [i \in DOMAIN calls[d].tasks |->
                            MarkKill(calls[d].tasks[i], calls[d].servers[i], server_id)]]]
    /\ UNCHANGED <<now, config, max_concurrent, sem>>

\* The caller takes the returned value; the caller may call again.
Return(c) ==
    /\ calls[c].pc = "done"
    /\ calls' = [calls EXCEPT ![c] = IdleCall]
    /\ UNCHANGED <<now, cache, config, max_concurrent, sem>>

\* Every step one caller can take, its arguments drawn from the given sets.
CallerStep(c, ops, users, filters) ==
    \/ \E op \in ops, u \in users \cup {""}, f \in filters, b \in BOOLEAN :
          Call(c, op, u, f, b)
    \/ \E i \in DOMAIN calls[c].tasks : Resolve(c, i)
    \/ \E i \in DOMAIN calls[c].tasks :
          \E p \in StatusProcesses(calls[c].servers[i].hostname) : SshDone(c, i, p)
    \/ \E i \in DOMAIN calls[c].tasks : \E e \in ErrorTexts : SshRaise(c, i, e)
    \/ Aggregate(c)
    \/ \E p \in KillProcesses : KillDone(c, p)
    \/ Return(c)

\* time.time() after a pause of one default cache_ttl, or a tick less.
LongWait ==
    /\ now = 0
    /\ now' \in {DefaultCacheTtl - 1, DefaultCacheTtl}
    /\ UNCHANGED <<cache, config, max_concurrent, sem, calls>>

\* What the status command's subprocess does in SpecDefaults.
PollProcesses(hostname) ==
    { ProcessExit(0, QuietOutput, "", TRUE, 80) }
    \cup (IF hostname = "host1" THEN {ProcessTimeout(1000 * timeout_setting)} ELSE {})

\* A caller that asks once for the cluster status of the given servers.
PollStep(c, filter) ==
    \/ Call(c, "get_cluster_status", "", filter, FALSE)
    \/ \E i \in DOMAIN calls[c].tasks : Resolve(c, i)
    \/ \E i \in DOMAIN calls[c].tasks :
          \E p \in PollProcesses(calls[c].servers[i].hostname) : SshDone(c, i, p)
    \/ Aggregate(c)

\* An engine built from a configuration file that leaves settings out,
\* polled by three callers.
InitDefaults == InitFrom(PartialFiles)

NextDefaults ==
    \/ Tick
    \/ LongWait
    \/ PollStep("c1", NoFilter)
    \/ PollStep("c2", NoFilter)
    \/ PollStep("c3", IdList(<<"gpu01">>))

SpecDefaults == InitDefaults /\ [][NextDefaults]_vars

\* An engine built from a configuration file with a repeated server id,
\* one caller.
InitDuplicate == InitFrom(DuplicateFiles)

NextDuplicate ==
    \/ Tick
    \/ CallerStep("c1", Ops, {"alice"}, {NoFilter, IdList(<<"gpu01">>)})

SpecDuplicate == InitDuplicate /\ [][NextDuplicate]_vars

\* The configurations assigned to monitor.config after construction: the
\* one of the test fixtures and the demo (max_concurrent 2), and the same
\* with cache_ttl 0.
InstalledConfigs ==
    { ClusterConfig(FileServers, FileSettings(2)),
      ClusterConfig(FileServers, [FileSettings(2) EXCEPT !["cache_ttl"] = 0]) }

\* "monitor.config = cfg" between calls: the attribute is replaced; the
\* cache and the semaphore built by __init__ stay as they are.
InstallConfig(cfg) ==
    /\ \A c \in Callers : calls[c].pc \in {"idle", "done"}
    /\ config # cfg
    /\ config' = cfg
    /\ UNCHANGED <<now, cache, max_concurrent, sem, calls>>

\* An engine constructed without a configuration file, whose configuration
\* is then replaced, polled by three callers.
InitInstalled == InitFrom({NoFile})

NextInstalled ==
    \/ Tick
    \/ \E cfg \in InstalledConfigs : InstallConfig(cfg)
    \/ PollStep("c1", NoFilter)
    \/ PollStep("c2", NoFilter)
    \/ PollStep("c3", IdList(<<"gpu01">>))

SpecInstalled == InitInstalled /\ [][NextInstalled]_vars

\* A caller that kills the tasks of a user on the given servers, whose
\* hosts answer the status command with running processes.
KillStep(c, username, filter) ==
    \/ Call(c, "kill_user_tasks", username, filter, TRUE)
    \/ \E i \in DOMAIN calls[c].tasks : Resolve(c, i)
    \/ \E i \in DOMAIN calls[c].tasks :
          SshDone(c, i, ProcessExit(0, BusyOutput(PidBase(calls[c].servers[i].hostname)),
                                    "", TRUE, 120))
    \/ Aggregate(c)
    \/ \E p \in KillProcesses : KillDone(c, p)
    \/ Return(c)

\* Two concurrent callers of one engine that kill the tasks of the same
\* user, one on every server and one on gpu01.
NextKills ==
    \/ Tick
    \/ KillStep("c1", "alice", NoFilter)
    \/ KillStep("c2", "alice", IdList(<<"gpu01">>))

SpecKills == Init /\ [][NextKills]_vars

-----------------------------------------------------------------------------
(* The kill command of the command line (cli.py).  Every run constructs    *)
(* its own GPUMonitor.                                                      *)

\* The environment of the process: USER set, or not set.
Environments == { [k \in {"USER"} |-> "alice"], [k \in {} |-> ""] }

\* os.environ.get('USER', 'unknown')
get_current_user(env) == IF "USER" \in DOMAIN env THEN env["USER"] ELSE "unknown"

\* username = user or get_current_user(); the option is None when not given.
cli_username(user, env) ==
    IF user = None \/ user = "" THEN get_current_user(env) ELSE user

\* server_ids = [server] if server else None
cli_server_ids(server) ==
    IF server = None \/ server = "" THEN NoFilter ELSE IdList(<<server>>)

\* A local variable of a function that has not been assigned yet.
Unbound == "unbound"

\* The variables of _kill when it starts.  confirm is assigned in its body
\* ("confirm = True"), so the name is a local of _kill, unbound until that
\* assignment, and the option kill() received stays in kill's scope;
\* dry_run is only read and is the option.
KillFrame(confirm, dry_run) ==
    [confirm_option |-> confirm, confirm |-> Unbound, dry_run |-> dry_run]

\* Variant: --confirm is looked at before --dry-run.
kill_after_usage_confirm_first(usage, frame, answer) ==
    IF usage.processes_by_server = <<>> THEN "no processes"
    ELSE IF frame.confirm_option THEN "kill"
    ELSE IF frame.dry_run THEN "dry run"
    ELSE "UnboundLocalError"

\* The way _kill takes once get_user_usage has returned; answer is what
\* the user replies to click.confirm.
kill_after_usage(usage, frame, answer) ==
    IF usage.processes_by_server = <<>> THEN "no processes"
    ELSE IF frame.dry_run THEN "dry run"
    ELSE IF frame.confirm = Unbound THEN "UnboundLocalError"
    ELSE IF ~frame.confirm /\ ~answer THEN "cancelled"
    ELSE "kill"

\* The lines "<server_id>: <n> processes" and "PID <pid> on GPU<i>: <name>".
cli_listing(usage) ==
    [e \in DOMAIN usage.processes_by_server |->
        [server_id |-> usage.processes_by_server[e][1],
         count |-> Len(usage.processes_by_server[e][2]),
         lines |-> [k \in DOMAIN usage.processes_by_server[e][2] |->
                      [pid |-> usage.processes_by_server[e][2][k].pid,
                       gpu_index |-> usage.processes_by_server[e][2][k].gpu_index,
                       process_name |-> usage.processes_by_server[e][2][k].process_name]]]]

\* "gpu-monitor kill" starts: monitor = GPUMonitor(ctx.obj['config']), a
\* new engine with an empty cache and a full semaphore.
CliKill(c, user, server, confirm, dry_run, env) ==
    /\ calls[c].pc = "idle"
    /\ calls[c].cli = NoCli
    /\ cache' = EmptyCache
    /\ sem' = max_concurrent
    /\ calls' = [calls EXCEPT ![c].cli =
                    [phase |-> "usage", username |-> cli_username(user, env),
                     server_ids |-> cli_server_ids(server),
                     frame |-> KillFrame(confirm, dry_run), output |-> <<>>]]
    /\ UNCHANGED <<now, config, max_concurrent>>

\* The record of the caller and the free slots once the run has called op
\* on its engine, which starts the resolutions of the selected servers.
CliCalled(c, op, confirm, cli) ==
    LET sel == servers_to_check(cli.server_ids)
        started == StartTasks(sel, 1, <<>>, sem)
    IN  [rec |-> [IdleCall EXCEPT !.op = op, !.username = cli.username,
                                  !.filter = cli.server_ids, !.confirm = confirm,
                                  !.pc = "gather", !.servers = sel,
                                  !.tasks = started.tasks, !.cli = cli],
         sem |-> started.sem]

\* usage = await monitor.get_user_usage(username, server_ids)
CliUsage(c) ==
    /\ calls[c].cli.phase = "usage"
    /\ calls[c].pc = "idle"
    /\ LET called == CliCalled(c, "get_user_usage", FALSE, calls[c].cli)
       IN  /\ calls' = [calls EXCEPT ![c] = called.rec]
           /\ sem' = called.sem
    /\ UNCHANGED <<now, cache, config, max_concurrent>>

\* get_user_usage has returned: the run prints and ends, or an exception
\* leaves _kill, or it calls monitor.kill_user_tasks(..., confirm=True).
CliAfterUsage(c, answer) ==
    /\ calls[c].cli.phase = "usage"
    /\ calls[c].pc = "done"
    /\ LET cli == calls[c].cli
           usage == calls[c].usage
           way == kill_after_usage(usage, cli.frame, answer)
           listed == [kind |-> "Processes to kill", listing |-> cli_listing(usage)]
           ended(lines) == [calls[c] EXCEPT !.cli.phase = way, !.cli.output = lines]
       IN  CASE way = "no processes" ->
                  /\ calls' = [calls EXCEPT ![c] =
                        ended(<< [kind |-> "No active GPU processes found",
                                  listing |-> <<>>] >>)]
                  /\ sem' = sem
             [] way = "dry run" ->
                  /\ calls' = [calls EXCEPT ![c] =
                        ended(<< listed, [kind |-> "Dry run", listing |-> <<>>] >>)]
                  /\ sem' = sem
             [] way = "cancelled" ->
                  /\ calls' = [calls EXCEPT ![c] =
                        ended(<< listed, [kind |-> "Operation cancelled",
                                          listing |-> <<>>] >>)]
                  /\ sem' = sem
             [] way = "kill" ->
                  LET called == CliCalled(c, "kill_user_tasks", TRUE,
                                   [cli EXCEPT !.phase = "kill",
                                               !.output = << listed,
                                                   [kind |-> "Killing processes",
                                                    listing |-> <<>>] >>])
                  IN  /\ calls' = [calls EXCEPT ![c] = called.rec]
                      /\ sem' = called.sem
             [] OTHER ->
                  /\ calls' = [calls EXCEPT ![c] = ended(<< listed >>)]
                  /\ sem' = sem
    /\ UNCHANGED <<now, cache, config, max_concurrent>>

\* The process of the run ends.
CliExit(c) ==
    /\ calls[c].cli.phase \in {"no processes", "dry run", "cancelled", "UnboundLocalError"}
    /\ calls' = [calls EXCEPT ![c] = IdleCall]
    /\ UNCHANGED <<now, cache, config, max_concurrent, sem>>

\* The options of a run: --user, --server, --confirm, --dry-run.
CliUsers == {None, "bob"}

CliServers == {None, "gpu02"}

CliRun(c) ==
    \/ \E user \in CliUsers, server \in CliServers, confirm \in BOOLEAN,
          dry_run \in BOOLEAN, env \in Environments :
              CliKill(c, user, server, confirm, dry_run, env)
    \/ CliUsage(c)
    \/ \E i \in DOMAIN calls[c].tasks : Resolve(c, i)
    \/ \E i \in DOMAIN calls[c].tasks :
          \E p \in StatusProcesses(calls[c].servers[i].hostname) : SshDone(c, i, p)
    \/ Aggregate(c)
    \/ \E answer \in BOOLEAN : CliAfterUsage(c, answer)
    \/ CliExit(c)

\* Runs of the kill command, one after the other.
NextCli ==
    \/ Tick
    \/ CliRun("c1")

SpecCli == Init /\ [][NextCli]_vars

\* What the subprocess of a status command and of a kill command does in
\* SpecLive: it exits with code 0, or it fails (it runs into the timeout,
\* it exits with an error).
LiveProcesses(hostname) ==
    { ProcessExit(0, BusyOutput(PidBase(hostname)), "", TRUE, 120),
      ProcessTimeout(1000 * timeout_setting) }

LiveKillProcesses ==
    { ProcessExit(0, <<>>, "", TRUE, 30),
      ProcessExit(1, <<>>, "Operation not permitted", TRUE, 35) }

\* The steps of a caller that the event loop and the remote hosts take, as
\* opposed to the caller's own decisions to call and to call again: a
\* status or kill command ends, gather hands over.
Progress(c) ==
    \/ \E i \in DOMAIN calls[c].tasks :
          \E p \in LiveProcesses(calls[c].servers[i].hostname) : SshDone(c, i, p)
    \/ Aggregate(c)
    \/ \E p \in LiveKillProcesses : KillDone(c, p)

\* A coroutine of the caller that waits for the semaphore gets a slot.
Admit(c) == \E i \in DOMAIN calls[c].tasks : Resolve(c, i)

\* A caller that calls one operation with the given arguments, again and
\* again.
LiveStep(c, op, username, filter, confirm) ==
    \/ Call(c, op, username, filter, confirm)
    \/ Admit(c)
    \/ Progress(c)
    \/ Return(c)

\* Two concurrent callers of one engine: one kills the tasks of a user,
\* one asks for the user's usage on gpu01.
NextLive ==
    \/ Tick
    \/ LiveStep("c1", "kill_user_tasks", "alice", NoFilter, TRUE)
    \/ LiveStep("c2", "get_user_usage", "alice", IdList(<<"gpu01">>), FALSE)

\* Every remote command ends and the event loop runs what is ready; the
\* waiters of asyncio.Semaphore are woken in turn, so a coroutine that
\* could get a slot again and again does get one.
Fairness ==
    \A c \in {"c1", "c2"} : WF_vars(Progress(c)) /\ SF_vars(Admit(c))

SpecLive == Init /\ [][NextLive]_vars /\ Fairness

\* One caller at a time, every operation and every argument.
NextOne ==
    \/ Tick
    \/ CallerStep("c1", Ops, Usernames, Filters)

SpecOne == Init /\ [][NextOne]_vars

\* Two concurrent callers of one engine: one asks for the status of one
\* server or kills the tasks of a user there, the other polls gpu01.
Next ==
    \/ Tick
    \/ CallerStep("c1", {"kill_user_tasks", "get_cluster_status"}, {"alice"},
                  {IdList(<<"gpu01">>), IdList(<<"gpu02", "gpu09">>)})
    \/ CallerStep("c2", {"get_cluster_status"}, {}, {IdList(<<"gpu01">>)})

Spec == Init /\ [][Next]_vars

-----------------------------------------------------------------------------
(* Properties.                                                             *)

\* The caller's call has been through get_cluster_status.
HasCluster(c) ==
    /\ calls[c].pc \in {"killssh", "done"}
    /\ calls[c].op = "kill_user_tasks" => calls[c].confirm

HasUsage(c) ==
    /\ HasCluster(c)
    /\ calls[c].op \in {"get_user_usage", "kill_user_tasks"}

\* C1: kill_user_tasks called with confirm=False returns in the step of the
\* call a result whose only key is "error", creates no status coroutine and
\* starts no kill command (the remote commands in flight are unchanged), and
\* leaves the cache unchanged, whatever the username, the filter and the
\* cache.
C1_UnconfirmedKillIsInert ==
    [][\A c \in Callers :
          (/\ calls[c].pc = "idle"
           /\ calls'[c].op = "kill_user_tasks"
           /\ ~calls'[c].confirm)
          => /\ calls'[c].pc = "done"
             /\ DictKeys(calls'[c].results) = <<"error">>
             /\ calls'[c].tasks = <<>>
             /\ calls'[c].commands = <<>>
             /\ InFlight' = InFlight
             /\ cache' = cache]_vars

C1_Witness ==
    \E c \in Callers :
        /\ calls[c].op = "kill_user_tasks"
        /\ ~calls[c].confirm
        /\ calls[c].pc = "done"
        /\ calls[c].filter = IdList(<<>>)
        /\ DOMAIN cache # {}

\* C2: the remote commands in flight, status commands and kill commands
\* together, are never more than max_concurrent.
C2_InFlightBounded == InFlight <= max_concurrent

\* C3: a resolution created after a successful kill on its server never
\* returns a status computed from a status command issued before that kill.
C3_NoStatusFromBeforeKill ==
    \A c \in Callers : \A i \in DOMAIN calls[c].tasks :
        (/\ calls[c].pc = "gather"
         /\ calls[c].tasks[i].st = "done"
         /\ ~calls[c].tasks[i].killedSince)
        => ~calls[c].tasks[i].res.status.preKill

\* The coroutine i of caller c looks in the cache in this step: it is in
\* the semaphore after the step and was not before.
Lookup(c, i) ==
    /\ i \in DOMAIN calls'[c].tasks
    /\ calls'[c].tasks[i].st # "wait"
    /\ i \in DOMAIN calls[c].tasks => calls[c].tasks[i].st = "wait"

\* C4 (as stated): a resolution created while the cache holds an entry for
\* its server that is less than cache_ttl old, and with no invalidation
\* since, returns that entry and runs no status command.
C4_CreatedWithinTtlHits ==
    [][\A c \in Callers : \A i \in DOMAIN calls[c].tasks :
          (/\ Lookup(c, i)
           /\ calls[c].tasks[i].sawValid
           /\ CacheKey(calls[c].servers[i].id) \in DOMAIN cache)
          => /\ calls'[c].tasks[i].st = "done"
             /\ ~calls'[c].tasks[i].issued
             /\ calls'[c].tasks[i].res.status = cache[CacheKey(calls[c].servers[i].id)].data
        ]_vars

\* C4 (amended): a resolution that misses stores the status it returns with
\* the time of the store; a resolution whose cache lookup comes less than
\* cache_ttl after the store of the entry then in the cache returns that
\* very status and runs no status command; one whose lookup comes cache_ttl
\* or more after it, or finds no entry, runs a status command.
C4_LookupWithinTtlHits ==
    [][\A c \in Callers : \A i \in DOMAIN calls'[c].tasks :
          LET key == CacheKey(calls'[c].servers[i].id)
              new == calls'[c].tasks[i]
          IN  /\ (Lookup(c, i) /\ key \in DOMAIN cache /\ now - cache[key].timestamp < cache_ttl)
                 => /\ new.st = "done"
                    /\ new.res = Returned(cache[key].data)
                    /\ ~new.issued
                    /\ cache' = cache
              /\ (Lookup(c, i) /\ key \in DOMAIN cache /\ now - cache[key].timestamp >= cache_ttl)
                 => new.st = "ssh" /\ new.issued
              /\ (Lookup(c, i) /\ key \notin DOMAIN cache)
                 => new.st = "ssh" /\ new.issued
              /\ (/\ i \in DOMAIN calls[c].tasks
                  /\ calls[c].tasks[i].st = "ssh"
                  /\ new.st = "done" /\ ~new.res.exc)
                 => cache'[key] = [data |-> new.res.status, timestamp |-> now]
        ]_vars

C4_Witness ==
    \E c \in Callers : \E i \in DOMAIN calls[c].tasks :
        /\ calls[c].pc = "gather"
        /\ calls[c].tasks[i].st = "done"
        /\ ~calls[c].tasks[i].issued
        /\ ~calls[c].tasks[i].res.exc
        /\ calls[c].tasks[i].res.status.online
        /\ CacheKey(calls[c].servers[i].id) \in DOMAIN cache
        /\ cache[CacheKey(calls[c].servers[i].id)].data = calls[c].tasks[i].res.status

\* The configured servers a server_ids argument names.
Matching(filter) ==
    { i \in DOMAIN config_servers : config_servers[i].id \in Range(filter.ids) }

\* C5: get_cluster_status returns statuses only for configured servers the
\* filter selects, and total_servers is the number of configured servers
\* matching the filter: all of them only when the filter is absent.
C5_TotalIsFilteredCount ==
    \A c \in Callers :
        HasCluster(c) =>
            LET f == calls[c].filter
                cl == calls[c].cluster
            IN  /\ \A j \in DOMAIN cl.servers :
                      /\ cl.servers[j].server_id \in ServerIds
                      /\ f.absent \/ cl.servers[j].server_id \in Range(f.ids)
                /\ cl.total_servers =
                      IF f.absent THEN Len(config_servers) ELSE Cardinality(Matching(f))

\* C6: in every ClusterStatus total_gpus is the number of GPUs of the online
\* entries, online_servers the number of online entries and total_servers
\* the number of entries.
C6_ClusterTotals ==
    \A c \in Callers :
        HasCluster(c) =>
            LET cl == calls[c].cluster
                online == { j \in DOMAIN cl.servers : cl.servers[j].online }
                gpus == UNION { { <<j, k>> : k \in DOMAIN cl.servers[j].gpus } : j \in online }
            IN  /\ cl.total_gpus = Cardinality(gpus)
                /\ cl.online_servers = Cardinality(online)
                /\ cl.total_servers = Len(cl.servers)

C6_Witness ==
    \E c \in Callers :
        /\ HasCluster(c)
        /\ calls[c].cluster.total_servers = 2
        /\ calls[c].cluster.online_servers = 1
        /\ calls[c].cluster.total_gpus = 2

\* The processes listed for server_id in a processes_by_server dict.
ListedFor(pbs, server_id) ==
    IF DictHas(pbs, server_id) THEN Range(DictGet(pbs, server_id)) ELSE {}

UserPids(status, username) ==
    { status.processes[k].pid : k \in { n \in DOMAIN status.processes :
                                          status.processes[n].username = username } }

C9_FailedKillKeepsCache ==
    [][\A c \in Callers :
          (calls[c].pc = "killssh" /\ calls'[c].results # calls[c].results) =>
              LET server_id == calls[c].usage.processes_by_server[calls[c].ki][1]
                  result == DictGet(calls'[c].results, server_id)
              IN  /\ result.kind \in {"Killed", "Failed to kill processes"}
                  /\ result.kind = "Failed to kill processes"
                     => /\ cache' = cache
                        /\ \E o \in KillOutcomes : ~o.success /\ result.text = o.text
                  /\ result.kind = "Killed"
                     => /\ CacheKey(server_id) \notin DOMAIN cache'
                        /\ \A k \in DOMAIN cache' : k \in DOMAIN cache /\ cache'[k] = cache[k]
      ]_vars

C9_Witness ==
    \E c \in Callers :
        /\ calls[c].op = "kill_user_tasks"
        /\ \E e \in DOMAIN calls[c].results :
              /\ calls[c].results[e][2].kind = "Failed to kill processes"
              /\ CacheKey(calls[c].results[e][1]) \in DOMAIN cache

\* C10: when the resolution of one selected server raises, get_cluster_status
\* still returns one entry per selected server, in their order: an offline
\* entry with the error text for the one that raised, and for every other
\* the status its own resolution returned.
C10_RaiseBecomesOffline ==
    \A c \in Callers :
        HasCluster(c) =>
            LET cl == calls[c].cluster
                rec == calls[c]
            IN  /\ Len(cl.servers) = Len(rec.servers)
                /\ Len(rec.tasks) = Len(rec.servers)
                /\ \A i \in DOMAIN rec.tasks :
                      IF rec.tasks[i].res.exc
                      THEN /\ cl.servers[i].server_id = rec.servers[i].id
                           /\ cl.servers[i].hostname = rec.servers[i].hostname
                           /\ ~cl.servers[i].online
                           /\ cl.servers[i].error_message = rec.tasks[i].res.text
                           /\ cl.servers[i].gpus = <<>>
                           /\ cl.servers[i].processes = <<>>
                      ELSE cl.servers[i] = rec.tasks[i].res.status

C10_Witness ==
    \E c \in Callers :
        /\ HasCluster(c)
        /\ Len(calls[c].tasks) = 2
        /\ calls[c].tasks[1].res.exc
        /\ ~calls[c].tasks[2].res.exc
        /\ calls[c].cluster.servers[2].online

\* The place of a server id in the configuration.
ConfigIndex(server_id) ==
    CHOOSE i \in DOMAIN config_servers : config_servers[i].id = server_id

\* C11: the entries of every ClusterStatus are statuses of configured
\* servers in configuration order, whatever the order in which the
\* resolutions completed and the order of the ids in the filter.
C11_ConfigurationOrder ==
    \A c \in Callers :
        HasCluster(c) =>
            LET sts == calls[c].cluster.servers
            IN  /\ \A j \in DOMAIN sts : sts[j].server_id \in ServerIds
                /\ \A j, k \in DOMAIN sts :
                      j < k => ConfigIndex(sts[j].server_id) < ConfigIndex(sts[k].server_id)

\* The filter names gpu02 before gpu01 and the status of gpu02 was built
\* before the one of gpu01.
C11_Witness ==
    \E c \in Callers :
        /\ HasCluster(c)
        /\ calls[c].filter = IdList(<<"gpu02", "gpu01">>)
        /\ Len(calls[c].cluster.servers) = 2
        /\ calls[c].cluster.servers[1].server_id = "gpu01"
        /\ calls[c].cluster.servers[2].last_updated < calls[c].cluster.servers[1].last_updated
        /\ calls[c].cluster.servers[1].online
        /\ calls[c].cluster.servers[2].online

\* C12 (as stated): a resolution created while the cache holds an offline
\* status of its server that is less than cache_ttl old, with that entry
\* neither deleted nor replaced since, returns that status and runs no
\* status command.
C12_OfflineStartedWithinTtlHits ==
    [][\A c \in Callers : \A i \in DOMAIN calls[c].tasks :
          LET key == CacheKey(calls[c].servers[i].id)
          IN  (/\ Lookup(c, i)
               /\ calls[c].tasks[i].sawValid
               /\ key \in DOMAIN cache
               /\ ~cache[key].data.online)
              => /\ calls'[c].tasks[i].st = "done"
                 /\ ~calls'[c].tasks[i].issued
                 /\ calls'[c].tasks[i].res = Returned(cache[key].data)
        ]_vars

\* C12 (amended): a resolution whose status command failed stores the
\* offline status it returns; a resolution whose cache lookup finds an
\* offline status stored less than cache_ttl ago returns that status,
\* still offline and with the same error text, runs no status command and
\* leaves the cache as it is, whatever the host would answer now.
C12_OfflineLookupWithinTtlHits ==
    [][\A c \in Callers : \A i \in DOMAIN calls'[c].tasks :
          LET key == CacheKey(calls'[c].servers[i].id)
              new == calls'[c].tasks[i]
          IN  /\ (/\ i \in DOMAIN calls[c].tasks
                  /\ calls[c].tasks[i].st = "ssh"
                  /\ new.st = "done" /\ ~new.res.exc /\ ~new.res.status.online)
                 => /\ key \in DOMAIN cache'
                    /\ cache'[key] = [data |-> new.res.status, timestamp |-> now]
              /\ (/\ Lookup(c, i)
                  /\ key \in DOMAIN cache
                  /\ ~cache[key].data.online
                  /\ now - cache[key].timestamp < cache_ttl)
                 => /\ new.st = "done"
                    /\ ~new.issued
                    /\ new.ran = NoProcess
                    /\ new.res = Returned(cache[key].data)
                    /\ ~new.res.status.online
                    /\ cache' = cache
        ]_vars

\* A resolution that waited for a slot returned the cached offline status
\* without a status command of its own.
C12_Witness ==
    \E c \in Callers : \E i \in DOMAIN calls[c].tasks :
        /\ calls[c].pc = "gather"
        /\ calls[c].tasks[i].st = "done"
        /\ ~calls[c].tasks[i].issued
        /\ ~calls[c].tasks[i].res.exc
        /\ ~calls[c].tasks[i].res.status.online
        /\ calls[c].tasks[i].res.status.error_message = "Connection refused"
        /\ CacheKey(calls[c].servers[i].id) \in DOMAIN cache
        /\ cache[CacheKey(calls[c].servers[i].id)].data = calls[c].tasks[i].res.status

\* C13: whatever the subprocess of its status command does, a resolution
\* that missed the cache returns a status and no exception: the status of
\* its server, online exactly when the Runner reported success; then gpus
\* and processes are the parse of the Runner's output, error_message is
\* absent and response_time_ms is the Runner's elapsed time; otherwise
\* error_message is the Runner's text and gpus and processes are empty.
\* Only a resolution the Runner did not answer ends with an exception.
C13_StatusFromRunner ==
    [][\A c \in Callers : \A i \in DOMAIN calls[c].tasks :
          (calls[c].tasks[i].st = "ssh" /\ calls'[c].tasks[i].st = "done") =>
              LET new == calls'[c].tasks[i]
                  server == calls[c].servers[i]
                  status == new.res.status
              IN  IF new.ran = NoProcess THEN new.res.exc
                  ELSE \E o \in StatusOutcomes(server.hostname) :
                          /\ o = _run_ssh_command(new.ran, timeout_setting)
                          /\ ~new.res.exc
                          /\ status.server_id = server.id
                          /\ status.hostname = server.hostname
                          /\ status.online = o.success
                          /\ o.success =>
                                /\ status.gpus = _parse_nvidia_smi_output(o.output).gpus
                                /\ status.processes = _parse_nvidia_smi_output(o.output).processes
                                /\ status.error_message = None
                                /\ status.response_time_ms = <<o.elapsed>>
                          /\ ~o.success =>
                                /\ status.error_message = o.text
                                /\ status.gpus = <<>>
                                /\ status.processes = <<>>
      ]_vars

\* One call resolved gpu01, whose status command timed out, and gpu02, which
\* answered with two GPUs and two processes.
C13_Witness ==
    \E c \in Callers :
        /\ calls[c].pc = "gather"
        /\ Len(calls[c].tasks) = 2
        /\ calls[c].tasks[1].st = "done"
        /\ calls[c].tasks[1].ran.kind = "timeout"
        /\ ~calls[c].tasks[1].res.status.online
        /\ calls[c].tasks[1].res.status.error_message = "SSH timeout after 2s"
        /\ calls[c].tasks[2].st = "done"
        /\ calls[c].tasks[2].ran.kind = "exit"
        /\ calls[c].tasks[2].res.status.online
        /\ Len(calls[c].tasks[2].res.status.gpus) = 2
        /\ Len(calls[c].tasks[2].res.status.processes) = 2
        /\ calls[c].tasks[2].res.status.response_time_ms = <<120>>

\* error_message is present exactly when the status is offline, and an
\* offline status has neither GPUs nor processes.
WellFormedStatus(status) ==
    /\ (status.error_message # None) <=> ~status.online
    /\ ~status.online => (status.gpus = <<>> /\ status.processes = <<>>)

\* C14: every status in the cache, every status a resolution returned and
\* every entry of a ClusterStatus, the ones the aggregator substitutes
\* included, is well formed.
C14_StatusesWellFormed ==
    /\ \A k \in DOMAIN cache : WellFormedStatus(cache[k].data)
    /\ \A c \in Callers :
          /\ \A i \in DOMAIN calls[c].tasks :
                (calls[c].tasks[i].st = "done" /\ ~calls[c].tasks[i].res.exc)
                    => WellFormedStatus(calls[c].tasks[i].res.status)
          /\ HasCluster(c) =>
                \A j \in DOMAIN calls[c].cluster.servers :
                    WellFormedStatus(calls[c].cluster.servers[j])

\* A ClusterStatus with a substituted entry for gpu01 and an offline status
\* of gpu02 built by the resolver, which the cache holds too.
C14_Witness ==
    \E c \in Callers :
        /\ HasCluster(c)
        /\ Len(calls[c].cluster.servers) = 2
        /\ calls[c].tasks[1].res.exc
        /\ calls[c].cluster.servers[1].error_message = "boom"
        /\ ~calls[c].cluster.servers[2].online
        /\ calls[c].cluster.servers[2].error_message = DecodeErrorText
        /\ CacheKey("gpu02") \in DOMAIN cache
        /\ cache[CacheKey("gpu02")].data = calls[c].cluster.servers[2]

\* C15: the Runner's success flag is true exactly when the subprocess
\* exited with status zero before the timeout; after a timeout the text
\* names the timeout value, after a non-zero exit it is the error stream
\* or an exception text, and when the subprocess cannot be created it is
\* the exception text.  The status of the resolution shows the flag.
C15_SuccessIffExitZero ==
    \A c \in Callers : \A i \in DOMAIN calls[c].tasks :
        (calls[c].tasks[i].st = "done" /\ calls[c].tasks[i].ran # NoProcess) =>
            LET p == calls[c].tasks[i].ran
                o == _run_ssh_command(p, timeout_setting)
            IN  /\ calls[c].tasks[i].res.status.online = o.success
                /\ o.success <=> (p.kind = "exit" /\ p.returncode = 0)
                /\ p.kind = "timeout" =>
                      o.text = "SSH timeout after " \o ToString(timeout_setting) \o "s"
                /\ (p.kind = "exit" /\ p.returncode # 0) =>
                      o.text \in {p.stderr, DecodeErrorText}
                /\ p.kind = "error" => o.text = p.exc

\* The user has a process in an online entry of the ClusterStatus.
UserHasProcesses(cluster, username) ==
    \E j \in DOMAIN cluster.servers :
        cluster.servers[j].online /\ UserPids(cluster.servers[j], username) # {}

\* C16: when the statuses a confirmed kill_user_tasks resolved hold no
\* process of the user, the step that ends the resolution returns a result
\* whose only key is "message", starts no kill command and leaves the cache
\* as it is; with a process of the user the result is no "message".
C16_NoProcessesNoAction ==
    [][\A c \in Callers :
          (/\ calls[c].pc = "gather"
           /\ calls'[c].pc # "gather"
           /\ calls[c].op = "kill_user_tasks")
          => IF UserHasProcesses(calls'[c].cluster, calls[c].username)
             THEN /\ calls'[c].pc = "killssh"
                  /\ Len(calls'[c].commands) = 1
             ELSE /\ calls'[c].pc = "done"
                  /\ DictKeys(calls'[c].results) = <<"message">>
                  /\ calls'[c].commands = <<>>
                  /\ InFlight' = InFlight
                  /\ cache' = cache
      ]_vars

\* A confirmed kill returned "message" although a resolved server is online
\* with processes of other users and the cache holds statuses.
C16_Witness ==
    \E c \in Callers :
        /\ calls[c].op = "kill_user_tasks"
        /\ calls[c].confirm
        /\ calls[c].pc = "done"
        /\ DictKeys(calls[c].results) = <<"message">>
        /\ calls[c].commands = <<>>
        /\ \E j \in DOMAIN calls[c].cluster.servers :
              /\ calls[c].cluster.servers[j].online
              /\ calls[c].cluster.servers[j].processes # <<>>
        /\ DOMAIN cache # {}

\* C17: when a confirmed kill_user_tasks found a process of the user, the
\* keys of the result it returns are, without repetition, the ids of the
\* resolved servers that are online with a process of the user.
C17_ResultKeys ==
    \A c \in Callers :
        (/\ calls[c].op = "kill_user_tasks"
         /\ calls[c].pc = "done"
         /\ HasUsage(c)
         /\ UserHasProcesses(calls[c].cluster, calls[c].username))
        => LET sts == calls[c].cluster.servers
               keys == DictKeys(calls[c].results)
           IN  /\ Range(keys) =
                     { sts[j].server_id : j \in { n \in DOMAIN sts :
                          sts[n].online /\ UserPids(sts[n], calls[c].username) # {} } }
               /\ \A k, m \in DOMAIN keys : keys[k] = keys[m] => k = m

\* The kill failed on one server and succeeded on the other: both are keys.
C17_Witness ==
    \E c \in Callers :
        /\ calls[c].op = "kill_user_tasks"
        /\ calls[c].pc = "done"
        /\ Len(calls[c].results) = 2
        /\ calls[c].results[1][2].kind = "Failed to kill processes"
        /\ calls[c].results[2][2].kind = "Killed"
        /\ calls[c].results[2][2].count = 1

\* The status command of coroutine i of caller c ends in this step, with
\* an answer of the Runner or with an exception.
CommandEnds(c, i) ==
    /\ i \in DOMAIN calls[c].tasks
    /\ calls[c].tasks[i].st = "ssh"
    /\ calls'[c].tasks[i].st = "done"

\* C18 (as stated): the outcome of the status command of A does not change
\* the entry of a sibling B.  Had A answered at once, a resolution of B
\* created while the cache holds a valid entry of B would return that entry;
\* so it returns that entry too when it gets its slot after the status
\* command of A timed out.
C18_SiblingTimeoutIrrelevant ==
    [][\A c \in Callers : \A i \in DOMAIN calls[c].tasks :
          LET key == CacheKey(calls[c].servers[i].id)
          IN  (/\ Lookup(c, i)
               /\ calls[c].tasks[i].sawValid
               /\ key \in DOMAIN cache
               /\ \E j \in DOMAIN calls[c].tasks :
                     /\ calls[c].servers[j].id # calls[c].servers[i].id
                     /\ calls[c].tasks[j].st = "done"
                     /\ calls[c].tasks[j].ran.kind = "timeout")
              => /\ calls'[c].tasks[i].st = "done"
                 /\ calls'[c].tasks[i].res.status.online = cache[key].data.online
                 /\ calls'[c].tasks[i].res.status.gpus = cache[key].data.gpus
                 /\ calls'[c].tasks[i].res.status.processes = cache[key].data.processes
                 /\ calls'[c].tasks[i].res.status.error_message = cache[key].data.error_message
      ]_vars

\* C18 (amended): the end of the status command of a server A, whatever its
\* outcome, leaves the cache entry of every other configured server and every
\* coroutine resolving another server as they were, and cancels no call;
\* and the entry of a server in the ClusterStatus is the status its own
\* coroutine returned.  So two runs with the same steps at the same times
\* that differ in the outcome of A alone give the same entry for every
\* other server B.
C18_FailureStaysLocal ==
    [][\A c \in Callers :
          /\ \A i \in DOMAIN calls[c].tasks :
                CommandEnds(c, i) =>
                    LET A == calls[c].servers[i]
                    IN  /\ \A n \in DOMAIN config_servers :
                              LET B == config_servers[n]
                              IN  B.id # A.id =>
                                    /\ CacheKey(B.id) \in DOMAIN cache'
                                          <=> CacheKey(B.id) \in DOMAIN cache
                                    /\ CacheKey(B.id) \in DOMAIN cache =>
                                          cache'[CacheKey(B.id)] = cache[CacheKey(B.id)]
                        /\ \A d \in Callers :
                              /\ calls'[d].pc = calls[d].pc
                              /\ DOMAIN calls'[d].tasks = DOMAIN calls[d].tasks
                              /\ \A j \in DOMAIN calls[d].tasks :
                                    calls[d].servers[j].id # A.id =>
                                        calls'[d].tasks[j] = calls[d].tasks[j]
          /\ (calls[c].pc = "gather" /\ calls'[c].pc # "gather") =>
                /\ Len(calls'[c].cluster.servers) = Len(calls[c].tasks)
                /\ \A j \in DOMAIN calls[c].tasks :
                      ~calls[c].tasks[j].res.exc =>
                          calls'[c].cluster.servers[j] = calls[c].tasks[j].res.status
      ]_vars

\* One ClusterStatus where the status command of gpu01 timed out and gpu02
\* is online with its two GPUs.
C18_Witness ==
    \E c \in Callers :
        /\ HasCluster(c)
        /\ calls[c].op = "get_cluster_status"
        /\ Len(calls[c].cluster.servers) = 2
        /\ ~calls[c].cluster.servers[1].online
        /\ calls[c].cluster.servers[1].error_message = "SSH timeout after 2s"
        /\ calls[c].cluster.servers[2].online
        /\ Len(calls[c].cluster.servers[2].gpus) = 2
        /\ calls[c].cluster.online_servers = 1

\* The setting is in the settings map of the configuration.
Configured(key) == key \in DOMAIN config.settings

\* C19: each setting the map leaves out has its own default and each one it
\* gives is used as given.  Without max_concurrent the status commands in
\* flight and the free slots add up to 4, else to the given value; a cache
\* lookup hits exactly when the entry is younger than 30 without cache_ttl,
\* else younger than the given value; the text of a timeout names 5 seconds
\* without ssh_timeout, else the given value.
C19_DefaultsPerKey ==
    [][/\ StatusInFlight' + sem' =
             (IF Configured("max_concurrent") THEN config.settings["max_concurrent"] ELSE 4)
       /\ StatusInFlight' <=
             (IF Configured("max_concurrent") THEN config.settings["max_concurrent"] ELSE 4)
       /\ \A c \in Callers : \A i \in DOMAIN calls'[c].tasks :
             LET key == CacheKey(calls'[c].servers[i].id)
                 new == calls'[c].tasks[i]
                 window == IF Configured("cache_ttl") THEN config.settings["cache_ttl"] ELSE 30
             IN  /\ Lookup(c, i) =>
                       ((new.st = "done" /\ ~new.issued)
                            <=> (key \in DOMAIN cache /\ now - cache[key].timestamp < window))
                 /\ (CommandEnds(c, i) /\ new.ran.kind = "timeout") =>
                       new.res.status.error_message =
                           (IF Configured("ssh_timeout") THEN "SSH timeout after 2s"
                                                         ELSE "SSH timeout after 5s")
      ]_vars

\* The settings leave out max_concurrent alone; four status commands are in
\* flight and a fifth resolution waits for a slot.
C19_Witness ==
    /\ ~Configured("max_concurrent")
    /\ Configured("cache_ttl")
    /\ Configured("ssh_timeout")
    /\ StatusInFlight = 4
    /\ sem = 0
    /\ \E c \in Callers : \E i \in DOMAIN calls[c].tasks : calls[c].tasks[i].st = "wait"

\* C20: the configuration of an engine that answered a call has pairwise
\* distinct server ids, hence pairwise distinct cache keys, and the
\* ClusterStatus the call got has no two entries with the same server_id.
C20_UniqueServerIds ==
    \A c \in Callers :
        HasCluster(c) =>
            /\ \A i, j \in DOMAIN config_servers :
                  CacheKey(config_servers[i].id) = CacheKey(config_servers[j].id) => i = j
            /\ \A i, j \in DOMAIN calls[c].cluster.servers :
                  calls[c].cluster.servers[i].server_id = calls[c].cluster.servers[j].server_id
                      => i = j

-----------------------------------------------------------------------------
(* The parser, seen through the status of a resolution whose command       *)
(* exited with code 0.                                                      *)

\* The line has the form "PID <pid> <username> GPU:<index> <mem>MB <name>".
ProcessPattern(l) == l.proc # <<>>

\* The line has the form "GPU <index> ... <n>% ... <used>/<total> MB".
GpuPattern(l) == l.gpu # <<>>

\* C21: the processes of a status parsed from the text of a status command
\* are, in line order, one ProcessInfo for every line of the form
\* "PID <pid> <username> GPU:<index> <mem>MB <name>" and nothing else (the
\* three process lines of the test fixture have this form).
C21_EveryProcessLineParsed ==
    [][\A c \in Callers : \A i \in DOMAIN calls[c].tasks :
          (/\ CommandEnds(c, i)
           /\ ~calls'[c].tasks[i].res.exc
           /\ calls'[c].tasks[i].res.status.online) =>
              calls'[c].tasks[i].res.status.processes =
                  MapSeq(SelectSeq(calls'[c].tasks[i].ran.stdout, ProcessPattern), ProcOf)
      ]_vars

\* C22: the gpus of a status parsed from the text of a status command are,
\* in line order, one GPUInfo for every line that matches the GPU pattern,
\* holding the index, percentage, used and total memory of the line, and
\* none for any other line; used and free memory add up to the total.
C22_GpuLinesParsed ==
    [][\A c \in Callers : \A i \in DOMAIN calls[c].tasks :
          (/\ CommandEnds(c, i)
           /\ ~calls'[c].tasks[i].res.exc
           /\ calls'[c].tasks[i].res.status.online) =>
              LET lines == SelectSeq(calls'[c].tasks[i].ran.stdout, GpuPattern)
                  gpus == calls'[c].tasks[i].res.status.gpus
              IN  /\ Len(gpus) = Len(lines)
                  /\ \A k \in DOMAIN gpus :
                        /\ gpus[k].index = lines[k].gpu[1]
                        /\ gpus[k].utilization_percent = lines[k].gpu[2]
                        /\ gpus[k].memory_used_mb = lines[k].gpu[3]
                        /\ gpus[k].memory_total_mb = lines[k].gpu[4]
                        /\ gpus[k].memory_used_mb + gpus[k].memory_free_mb
                               = gpus[k].memory_total_mb
      ]_vars

\* A status was parsed from text with a line that holds "GPU" and "%" and
\* does not match, followed by a GPU line that reports 17 MB used of 16:
\* one GPUInfo, with -1 MB free.
C22_Witness ==
    \E c \in Callers : \E i \in DOMAIN calls[c].tasks :
        /\ calls[c].tasks[i].st = "done"
        /\ calls[c].tasks[i].ran.kind = "exit"
        /\ calls[c].tasks[i].ran.stdout = OddOutput
        /\ calls[c].tasks[i].res.status.online
        /\ Len(calls[c].tasks[i].res.status.gpus) = 1
        /\ calls[c].tasks[i].res.status.gpus[1].memory_used_mb = 17
        /\ calls[c].tasks[i].res.status.gpus[1].memory_free_mb = 0 - 1

\* C23: of the resolutions of one server that overlap in time, only one
\* issues a status command: no two status commands for the same server are
\* in flight together.
C23_OneCommandPerServer ==
    \A c, d \in Callers :
        \A i \in DOMAIN calls[c].tasks : \A j \in DOMAIN calls[d].tasks :
            (/\ calls[c].tasks[i].st = "ssh"
             /\ calls[d].tasks[j].st = "ssh"
             /\ calls[c].servers[i].id = calls[d].servers[j].id)
                => (c = d /\ i = j)

\* The step stores a status under the key, or deletes the key's entry after
\* a successful kill command.
PutOrInvalidate(key) ==
    \/ \E c \in Callers : \E i \in DOMAIN calls[c].tasks :
          CommandEnds(c, i) /\ CacheKey(calls[c].servers[i].id) = key
    \/ \E c \in Callers :
          /\ calls[c].pc = "killssh"
          /\ calls'[c].results # calls[c].results
          /\ CacheKey(calls[c].usage.processes_by_server[calls[c].ki][1]) = key

\* C24: a cache lookup returns the entry of its key exactly when the entry's
\* age is strictly less than the cache_ttl of the configuration the engine
\* has at the lookup: an entry of age cache_ttl is passed over, and with
\* cache_ttl 0 nothing is returned whatever the age.  No step changes or
\* removes an entry except a store under its key or its invalidation; a
\* lookup that passes over an entry leaves it in the cache.
C24_StrictTtlAtLookup ==
    [][/\ \A c \in Callers : \A i \in DOMAIN calls'[c].tasks :
             Lookup(c, i) =>
                 LET key == CacheKey(calls'[c].servers[i].id)
                     new == calls'[c].tasks[i]
                     window == SettingsGet(config.settings, "cache_ttl", DefaultCacheTtl)
                     hit == new.st = "done" /\ ~new.issued
                 IN  /\ hit <=> (key \in DOMAIN cache /\ now - cache[key].timestamp < window)
                     /\ hit => new.res = Returned(cache[key].data)
                     /\ (key \in DOMAIN cache /\ now - cache[key].timestamp = window) => ~hit
                     /\ window = 0 => ~hit
                     /\ cache' = cache
       /\ \A key \in DOMAIN cache :
             PutOrInvalidate(key) \/ (key \in DOMAIN cache' /\ cache'[key] = cache[key])
      ]_vars

\* The configuration was replaced by one with cache_ttl 0; a resolution
\* found the entry stored at this very time, of age 0 = cache_ttl, passed
\* over it and issued a status command, and the entry is still in the cache.
C24_Witness ==
    /\ SettingsGet(config.settings, "cache_ttl", DefaultCacheTtl) = 0
    /\ \E c \in Callers : \E i \in DOMAIN calls[c].tasks :
          LET key == CacheKey(calls[c].servers[i].id)
          IN  /\ calls[c].tasks[i].st = "ssh"
              /\ key \in DOMAIN cache
              /\ cache[key].timestamp = now

\* C30: the number of status resolutions in flight is at most the
\* max_concurrent of the configuration the engine has, also after the
\* configuration was replaced.
C30_BoundFollowsInstalledConfig ==
    StatusInFlight <= SettingsGet(config.settings, "max_concurrent", DefaultMaxConcurrent)

\* C25: every PID of every kill command a call has issued is greater than
\* zero, whatever text the status commands returned.
C25_KillPidsPositive ==
    \A c \in Callers :
        \A k \in DOMAIN calls[c].commands :
            \A n \in DOMAIN calls[c].commands[k].pids :
                calls[c].commands[k].pids[n] > 0

\* C26: a confirmed kill_user_tasks call goes through the entries of
\* processes_by_server in order, one at a time, whatever the results so
\* far: while the command of entry ki runs, the entries before it have
\* their results and no later command has been issued; at the end every
\* entry has its result, and every entry whose server is in the
\* configuration has had its command, for its host and its processes.
C26_EveryServerProcessed ==
    \A c \in Callers :
        (/\ calls[c].op = "kill_user_tasks"
         /\ calls[c].pc \in {"killssh", "done"}
         /\ calls[c].confirm
         /\ calls[c].usage.processes_by_server # <<>>) =>
            LET pbs == calls[c].usage.processes_by_server
                reached == IF calls[c].pc = "killssh" THEN calls[c].ki - 1 ELSE Len(pbs)
                known == SelectSeq(pbs, LAMBDA e : HasServer(e[1]))
                issued == SelectSeq(SubSeq(pbs, 1, reached), LAMBDA e : HasServer(e[1]))
                          \o (IF calls[c].pc = "killssh" THEN <<pbs[calls[c].ki]>> ELSE <<>>)
            IN  /\ Len(calls[c].results) = reached
                /\ \A k \in DOMAIN calls[c].results : calls[c].results[k][1] = pbs[k][1]
                /\ Len(calls[c].commands) = Len(issued)
                /\ \A k \in DOMAIN calls[c].commands :
                      /\ calls[c].commands[k].hostname = FindServer(issued[k][1]).hostname
                      /\ calls[c].commands[k].pids = MapSeq(issued[k][2], LAMBDA p : p.pid)
                /\ calls[c].pc = "done" => Len(calls[c].commands) = Len(known)

\* The kill command for the first server failed and the command for the
\* second server is running.
C26_Witness ==
    \E c \in Callers :
        /\ calls[c].pc = "killssh"
        /\ calls[c].ki = 2
        /\ Len(calls[c].results) = 1
        /\ calls[c].results[1][2].kind = "Failed to kill processes"
        /\ Len(calls[c].commands) = 2
        /\ calls[c].commands[1].hostname # calls[c].commands[2].hostname

\* C27: the step that takes the answer of a successful kill command for
\* server S leaves the cache as it was except that S has no entry: every
\* other entry is kept unchanged, and when S had no entry the cache is
\* unchanged; the call records its result and goes on.
C27_KillInvalidatesOnlyItsServer ==
    [][\A c \in Callers :
          (calls[c].pc = "killssh" /\ calls'[c].results # calls[c].results) =>
              LET server_id == calls[c].usage.processes_by_server[calls[c].ki][1]
                  key == CacheKey(server_id)
                  result == DictGet(calls'[c].results, server_id)
              IN  result.kind = "Killed" =>
                     /\ DOMAIN cache' = DOMAIN cache \ {key}
                     /\ \A k \in DOMAIN cache' : cache'[k] = cache[k]
                     /\ key \notin DOMAIN cache => cache' = cache
                     /\ calls'[c].pc \in {"killssh", "done"}
      ]_vars

\* One call killed the user's tasks on gpu01 and now runs its kill command
\* on gpu02, the entry of gpu02 still in the cache; another call runs its
\* kill command on gpu01, which has no cache entry any more.
C27_Witness ==
    \E c, d \in Callers :
        /\ c # d
        /\ calls[c].pc = "killssh"
        /\ calls[c].ki = 2
        /\ calls[c].results[1][1] = "gpu01"
        /\ calls[c].results[1][2].kind = "Killed"
        /\ CacheKey("gpu02") \in DOMAIN cache
        /\ calls[d].pc = "killssh"
        /\ calls[d].usage.processes_by_server[calls[d].ki][1] = "gpu01"
        /\ CacheKey("gpu01") \notin DOMAIN cache

Unfresh(filter) ==
    { i \in DOMAIN servers_to_check(filter) :
        ~_is_cache_valid(cache, CacheKey(servers_to_check(filter)[i].id), ttl_setting, now) }

\* C29: different cache keys do not exclude each other.  When a call reaches
\* get_cluster_status with two free slots and two or more selected servers
\* without a fresh entry, the step that starts its resolutions leaves the
\* status commands of two different servers in flight together.
C29_DifferentServersOverlap ==
    [][\A c \in Callers :
          (/\ calls[c].pc = "idle"
           /\ calls'[c].pc = "gather"
           /\ max_concurrent >= 2
           /\ sem >= 2
           /\ Cardinality(Unfresh(calls'[c].filter)) >= 2) =>
              \E i, j \in DOMAIN calls'[c].tasks :
                  /\ calls'[c].servers[i].id # calls'[c].servers[j].id
                  /\ calls'[c].tasks[i].st = "ssh"
                  /\ calls'[c].tasks[j].st = "ssh"
      ]_vars

\* With max_concurrent 2, the status commands of gpu01 and gpu02 of one
\* get_cluster_status call are both running.
C29_Witness ==
    /\ max_concurrent = 2
    /\ \E c \in Callers :
          /\ calls[c].op = "get_cluster_status"
          /\ calls[c].pc = "gather"
          /\ Len(calls[c].tasks) = 2
          /\ calls[c].servers[1].id = "gpu01"
          /\ calls[c].servers[2].id = "gpu02"
          /\ calls[c].tasks[1].st = "ssh"
          /\ calls[c].tasks[2].st = "ssh"
          /\ sem = 0

-----------------------------------------------------------------------------
(* The kill command of the command line.                                   *)

\* C31: a run of the kill command with --dry-run never calls
\* kill_user_tasks and has no kill command issued, whoever the user and
\* whatever the hosts answered: it ends after get_user_usage, either with
\* "No active GPU processes found" or with the list of the user's processes
\* by server followed by the "Dry run" line.
C31_DryRunNeverKills ==
    \A c \in Callers :
        (calls[c].cli.phase # "none" /\ calls[c].cli.frame.dry_run) =>
            /\ calls[c].op \in {"none", "get_user_usage"}
            /\ ~calls[c].confirm
            /\ calls[c].pc # "killssh"
            /\ calls[c].commands = <<>>
            /\ calls[c].results = <<>>
            /\ calls[c].cli.phase \in {"usage", "no processes", "dry run"}
            /\ calls[c].cli.phase = "no processes" =>
                  calls[c].usage.processes_by_server = <<>>
            /\ calls[c].cli.phase = "dry run" =>
                  /\ Len(calls[c].cli.output) = 2
                  /\ calls[c].cli.output[1].kind = "Processes to kill"
                  /\ calls[c].cli.output[1].listing = cli_listing(calls[c].usage)
                  /\ calls[c].cli.output[2].kind = "Dry run"

\* A run with --dry-run and --confirm for the user of $USER, who has a
\* process on each of the two servers, has printed both and ended.
C31_Witness ==
    \E c \in Callers :
        /\ calls[c].cli.phase = "dry run"
        /\ calls[c].cli.frame.dry_run
        /\ calls[c].cli.frame.confirm_option
        /\ calls[c].cli.username = "alice"
        /\ Len(calls[c].cli.output[1].listing) = 2
        /\ calls[c].cli.output[1].listing[1].count = 1
        /\ calls[c].commands = <<>>

\* C32: a run of the kill command with --confirm and without --dry-run,
\* for a user get_user_usage found processes of, raises nothing and goes on
\* to kill_user_tasks with confirm=True.
C32_ConfirmReachesKill ==
    \A c \in Callers :
        (/\ calls[c].cli.frame.confirm_option
         /\ ~calls[c].cli.frame.dry_run
         /\ calls[c].cli.phase \notin {"none", "usage"}
         /\ calls[c].usage.processes_by_server # <<>>) =>
            /\ calls[c].cli.phase = "kill"
            /\ calls[c].op = "kill_user_tasks"
            /\ calls[c].confirm

-----------------------------------------------------------------------------
(* The semaphore.                                                          *)

\* The coroutines of the caller before the i-th that took a slot for their
\* status command in this step.
TookSlotBefore(c, i) ==
    { j \in 1 .. (i - 1) :
        /\ calls'[c].tasks[j].st = "ssh"
        /\ (j \in DOMAIN calls[c].tasks => calls[c].tasks[j].st # "ssh") }

\* C33: the size of the semaphore never changes after construction; the
\* resolutions that hold a slot with their status command and the free
\* slots add up to it, so their number lies between 0 and that size.  A
\* resolution goes past the semaphore only when a slot is free for it, also
\* when it then returns a cache entry.
C33_SlotsWithinConstructionBound ==
    [][/\ max_concurrent' = max_concurrent
       /\ sem' >= 0
       /\ StatusInFlight' >= 0
       /\ StatusInFlight' <= max_concurrent
       /\ StatusInFlight' + sem' = max_concurrent
       /\ \A c \in Callers : \A i \in DOMAIN calls'[c].tasks :
             Lookup(c, i) => sem - Cardinality(TookSlotBefore(c, i)) > 0
      ]_vars

\* Every slot is held by a status command, and a resolution whose server
\* has a valid cache entry waits for a slot.
C33_Witness ==
    /\ sem = 0
    /\ StatusInFlight = max_concurrent
    /\ \E c \in Callers : \E i \in DOMAIN calls[c].tasks :
          /\ calls[c].tasks[i].st = "wait"
          /\ _is_cache_valid(cache, CacheKey(calls[c].servers[i].id), ttl_setting, now)

\* C34: the step in which a resolution that ran a status command ends, with
\* a status or with an exception, gives its slot back; a resolution that
\* returns a cache entry leaves the number of free slots as it was.  So when
\* no call is inside get_cluster_status every slot is free, and a new call
\* finds one.
C34_SlotAlwaysReleased ==
    [][/\ \A c \in Callers : \A i \in DOMAIN calls[c].tasks :
             CommandEnds(c, i) => sem' = sem + 1
       /\ \A c \in Callers : \A i \in DOMAIN calls'[c].tasks :
             (/\ Lookup(c, i)
              /\ i \in DOMAIN calls[c].tasks
              /\ calls'[c].tasks[i].st = "done") => sem' = sem
       /\ (\A c \in Callers : calls'[c].pc # "gather") =>
             (sem' = max_concurrent /\ sem' >= 1)
      ]_vars

\* A call over two servers has returned: the resolution of one raised, the
\* other found its host offline, and every slot is free.
C34_Witness ==
    \E c \in Callers :
        /\ calls[c].pc = "done"
        /\ Len(calls[c].tasks) = 2
        /\ calls[c].tasks[1].res.exc
        /\ ~calls[c].tasks[2].res.exc
        /\ ~calls[c].tasks[2].res.status.online
        /\ sem = max_concurrent

-----------------------------------------------------------------------------
(* Termination.                                                            *)

\* C35: every call that is inside get_cluster_status, get_user_usage or
\* kill_user_tasks eventually returns, and every coroutine that waits for a
\* slot eventually gets one; a call that runs a kill command holds no slot
\* and waits for none.
C35_EveryCallReturns ==
    /\ \A c \in {"c1", "c2"} :
          (calls[c].pc \in {"gather", "killssh"}) ~> (calls[c].pc = "done")
    /\ [](\A c \in {"c1", "c2"} :
             calls[c].pc = "killssh" =>
                 \A i \in DOMAIN calls[c].tasks : calls[c].tasks[i].st = "done")

\* Every slot is taken by the status commands of a kill_user_tasks call
\* while the coroutine of another call waits for one.
C35_Witness ==
    /\ sem = 0
    /\ calls["c1"].op = "kill_user_tasks"
    /\ calls["c1"].pc = "gather"
    /\ \E i \in DOMAIN calls["c1"].tasks : calls["c1"].tasks[i].st = "ssh"
    /\ calls["c2"].pc = "gather"
    /\ \E i \in DOMAIN calls["c2"].tasks : calls["c2"].tasks[i].st = "wait"

-----------------------------------------------------------------------------
(* The shape of the cache.                                                 *)

\* The cache after the step differs from the cache before it in the entry
\* of key only.
OnlyKeyChanged(key) ==
    /\ DOMAIN cache' \ {key} = DOMAIN cache \ {key}
    /\ \A k \in DOMAIN cache' \ {key} : cache'[k] = cache[k]

\* C36: every key of the cache is "server_status_" followed by the id of a
\* configured server and the status stored under it has that server_id;
\* a step changes the cache only by storing the status that a resolution
\* built after it missed and ran the status command, or by deleting the
\* entry of the server whose kill command succeeded.
C36_CacheKeyedByConfiguredServer ==
    [][/\ \A k \in DOMAIN cache' :
             \E i \in DOMAIN config_servers :
                /\ k = "server_status_" \o config_servers[i].id
                /\ cache'[k].data.server_id = config_servers[i].id
       /\ cache' # cache =>
             \E c \in Callers :
                \/ \E i \in DOMAIN calls[c].tasks :
                      LET key == "server_status_" \o calls[c].servers[i].id
                      IN  /\ calls[c].tasks[i].st = "ssh"
                          /\ calls'[c].tasks[i].st = "done"
                          /\ ~calls'[c].tasks[i].res.exc
                          /\ key \in DOMAIN cache'
                          /\ cache'[key] = [data |-> calls'[c].tasks[i].res.status,
                                            timestamp |-> now]
                          /\ OnlyKeyChanged(key)
                \/ LET server_id == calls[c].usage.processes_by_server[calls[c].ki][1]
                       key == "server_status_" \o server_id
                   IN  /\ calls[c].pc = "killssh"
                       /\ calls'[c].results # calls[c].results
                       /\ DictGet(calls'[c].results, server_id).kind = "Killed"
                       /\ key \in DOMAIN cache
                       /\ key \notin DOMAIN cache'
                       /\ OnlyKeyChanged(key)
      ]_vars

\* A kill call deleted the entry of gpu01 after its kill command there
\* succeeded and now runs its kill command on gpu02, whose status, stored
\* by the resolution that missed, is still in the cache.
C36_Witness ==
    \E c \in Callers :
        /\ calls[c].pc = "killssh"
        /\ calls[c].ki = 2
        /\ calls[c].results[1][1] = "gpu01"
        /\ calls[c].results[1][2].kind = "Killed"
        /\ DOMAIN cache = {"server_status_gpu02"}
        /\ cache["server_status_gpu02"].data.server_id = "gpu02"
        /\ cache["server_status_gpu02"].data.hostname # "gpu02"

-----------------------------------------------------------------------------
(* Where kill_user_tasks takes its PIDs from.                              *)

\* The coroutine i of the caller goes past the cache lookup in this step.
LooksUp(c, i) ==
    /\ calls'[c].pc = "gather"
    /\ i \in DOMAIN calls'[c].tasks
    /\ calls'[c].tasks[i].st # "wait"
    /\ i \in DOMAIN calls[c].tasks => calls[c].tasks[i].st = "wait"

\* C37: a confirmed kill_user_tasks resolves its servers cache first: a
\* coroutine that finds a fresh entry of its server at the lookup ends with
\* the cached status and runs no status command; and every kill command
\* the call issues carries exactly the PIDs of the user's processes in the
\* status its resolution returned for that host.
C37_KillUsesCachedStatus ==
    [][\A c \in Callers :
          (calls'[c].op = "kill_user_tasks" /\ calls'[c].confirm) =>
             /\ \A i \in DOMAIN calls'[c].tasks :
                   LET key == "server_status_" \o calls'[c].servers[i].id
                       fresh == /\ key \in DOMAIN cache
                                /\ now - cache[key].timestamp < ttl_setting
                   IN  (LooksUp(c, i) /\ fresh) =>
                          /\ calls'[c].tasks[i].st = "done"
                          /\ ~calls'[c].tasks[i].issued
                          /\ calls'[c].tasks[i].res = Returned(cache[key].data)
             /\ \A j \in DOMAIN calls'[c].commands :
                   \E i \in DOMAIN calls'[c].tasks :
                      LET res == calls'[c].tasks[i].res
                          mine == SelectSeq(res.status.processes,
                                            LAMBDA p : p.username = calls'[c].username)
                      IN  /\ calls'[c].servers[i].hostname = calls'[c].commands[j].hostname
                          /\ ~res.exc
                          /\ calls'[c].commands[j].pids = [k \in DOMAIN mine |-> mine[k].pid]
      ]_vars

\* A confirmed kill_user_tasks over both servers has every result from the
\* cache: no coroutine ran a status command, and the cached status of the
\* first server lists processes of the user, whose PIDs the kill command
\* will carry.
C37_Witness ==
    \E c \in Callers :
        /\ calls[c].op = "kill_user_tasks"
        /\ calls[c].confirm
        /\ calls[c].pc = "gather"
        /\ Len(calls[c].tasks) = 2
        /\ \A i \in DOMAIN calls[c].tasks :
              /\ calls[c].tasks[i].st = "done"
              /\ ~calls[c].tasks[i].issued
              /\ ~calls[c].tasks[i].res.exc
              /\ "server_status_" \o calls[c].servers[i].id \in DOMAIN cache
              /\ calls[c].tasks[i].res.status =
                    cache["server_status_" \o calls[c].servers[i].id].data
        /\ \E k \in DOMAIN calls[c].tasks[1].res.status.processes :
              calls[c].tasks[1].res.status.processes[k].username = calls[c].username

-----------------------------------------------------------------------------
(* The server lookup of kill_user_tasks.                                   *)

\* C38: on an engine whose configuration stays as constructed, no result of
\* kill_user_tasks is "Server config not found": every server id in the
\* usage the call computed is the id of a configured server.
C38_NoServerConfigNotFound ==
    \A c \in Callers :
        calls[c].op = "kill_user_tasks" =>
            /\ \A e \in DOMAIN calls[c].results :
                  calls[c].results[e][2].kind # "Server config not found"
            /\ \A e \in DOMAIN calls[c].usage.processes_by_server :
                  \E i \in DOMAIN config_servers :
                     config_servers[i].id = calls[c].usage.processes_by_server[e][1]
            /\ \A e \in DOMAIN calls[c].usage.servers_used :
                  \E i \in DOMAIN config_servers :
                     config_servers[i].id = calls[c].usage.servers_used[e]

\* kill_user_tasks has returned with a result for each of the two servers,
\* both found in the configuration: one kill succeeded, one failed.
C38_Witness ==
    \E c \in Callers :
        /\ calls[c].op = "kill_user_tasks"
        /\ calls[c].pc = "done"
        /\ Len(calls[c].usage.processes_by_server) = 2
        /\ Len(calls[c].results) = 2
        /\ calls[c].results[1][1] = "gpu01"
        /\ calls[c].results[1][2].kind = "Failed to kill processes"
        /\ calls[c].results[2][1] = "gpu02"
        /\ calls[c].results[2][2].kind = "Killed"

====
